---- MODULE Spec2Model ----
(***************************************************************************)
(* Trace-driven interrupt / process-management simulator.                  *)
(*                                                                         *)
(* Two programs live in the repository:                                    *)
(*   extended variant  src/interrupts.cpp, src/interrupts.hpp              *)
(*   minimal variant   src/os_simulator/os_simulator/interrupts.cpp, .hpp  *)
(* Both are modelled.  The variable `variant` selects which main() runs.   *)
(*                                                                         *)
(* std::string values are TLA+ strings; a position is 0-based as in C++.   *)
(* The output string `execution` is a sequence of lines, one record        *)
(* [time, duration, description] per "<time>, <duration>, <description>\n" *)
(* that a handler appends.                                                 *)
(***************************************************************************)
EXTENDS Integers, Sequences, FiniteSets, TLC

(***************************************************************************)
(* Bounds of the model                                                     *)
(***************************************************************************)
\* number of trace lines read in one run, whatever the lines
MaxEvents == 2
\* number of trace lines read in a run made of FORK and EXEC lines only
MaxCalls == 4
\* number of trace lines read in a run made of FORK, two EXECs and the
\* IF_CHILD / IF_PARENT / ENDIF markers only
MaxMarked == 3

(***************************************************************************)
(* Program constants                                                       *)
(***************************************************************************)
ADDR_BASE == 0
VECTOR_SIZE == 2
CONTEXT_TIME == 10
\* std::string::npos, the "not found" result of std::string::find
npos == -1
\* an unsigned int is two 16-bit halves
HALF_RANGE == 2 ^ 16

(***************************************************************************)
(* std::string helpers                                                     *)
(***************************************************************************)
Min(a, b) == IF a < b THEN a ELSE b

\* the character at 0-based position pos
CharAt(s, pos) == SubSeq(s, pos + 1, pos + 1)

\* std::string::find(delim): first 0-based position of delim, or npos
find(input, delim) ==
    LET hits == {p \in 0..(Len(input) - Len(delim)) :
                    SubSeq(input, p + 1, p + Len(delim)) = delim}
    IN  IF hits = {} THEN npos
        ELSE CHOOSE p \in hits : \A q \in hits : p <= q

\* std::string::substr(pos, count) throws std::out_of_range iff pos > size()
substr_throws(s, pos) == pos > Len(s)

\* std::string::substr(pos, count) for pos <= size()
substr(s, pos, count) == SubSeq(s, pos + 1, Min(pos + count, Len(s)))

\* std::string::erase(0, count)
erase_front(s, count) == SubSeq(s, Min(count, Len(s)) + 1, Len(s))

\* split_delim: tokens between occurrences of delim (delim is non-empty)
RECURSIVE split_delim(_, _)
split_delim(input, delim) ==
    LET pos == find(input, delim)
    IN  IF pos # npos
        THEN <<substr(input, 0, pos)>>
                 \o split_delim(erase_front(input, pos + Len(delim)), delim)
        ELSE <<input>>

IsDigit(c) == c \in {"0", "1", "2", "3", "4", "5", "6", "7", "8", "9"}
IsSpace(c) == c \in {" ", "\t", "\n", "\r", "\f"}
DigitValue(c) ==
    CASE c = "0" -> 0 [] c = "1" -> 1 [] c = "2" -> 2 [] c = "3" -> 3
      [] c = "4" -> 4 [] c = "5" -> 5 [] c = "6" -> 6 [] c = "7" -> 7
      [] c = "8" -> 8 [] c = "9" -> 9

\* number of leading characters of s (from 0-based pos) that satisfy isspace
RECURSIVE SkipSpaces(_, _)
SkipSpaces(s, pos) ==
    IF pos < Len(s) /\ IsSpace(CharAt(s, pos)) THEN SkipSpaces(s, pos + 1)
    ELSE pos

\* first position >= pos that does not hold a digit
RECURSIVE SkipDigits(_, _)
SkipDigits(s, pos) ==
    IF pos < Len(s) /\ IsDigit(CharAt(s, pos)) THEN SkipDigits(s, pos + 1)
    ELSE pos

\* value of the decimal digits s[from .. to-1]
RECURSIVE DigitsValue(_, _, _)
DigitsValue(s, from, to) ==
    IF from >= to THEN 0
    ELSE 10 * DigitsValue(s, from, to - 1) + DigitValue(CharAt(s, to - 1))

\* std::stoi: skips white space, takes an optional sign and the longest run
\* of digits; throws std::invalid_argument when there is no digit.  (It also
\* throws std::out_of_range for a value that does not fit an int; the lines
\* of this model carry at most 9 digits, so that case does not arise.)
stoi(s) ==
    LET b == SkipSpaces(s, 0)
        signed == b < Len(s) /\ CharAt(s, b) \in {"-", "+"}
        d == IF signed THEN b + 1 ELSE b
        e == SkipDigits(s, d)
        mag == DigitsValue(s, d, e)
        v == IF signed /\ CharAt(s, b) = "-" THEN -mag ELSE mag
    IN  IF e = d
        THEN [threw |-> TRUE, value |-> 0]
        ELSE [threw |-> FALSE, value |-> v]

\* std::to_string(int)
to_string(n) == ToString(n)

HexDigit(d) == SubSeq("0123456789ABCDEF", d + 1, d + 1)

RECURSIVE HexDigits(_)
HexDigits(n) == IF n < 16 THEN HexDigit(n)
                ELSE HexDigits(n \div 16) \o HexDigit(n % 16)

RECURSIVE ZeroPad(_, _)
ZeroPad(s, width) == IF Len(s) >= width THEN s ELSE ZeroPad("0" \o s, width)

\* sprintf(buf, "0x%04X", v): v is printed as an unsigned int, upper-case
\* hexadecimal, zero-padded to at least 4 digits.  A negative int v is the
\* unsigned value 2^32 + v, printed here from its two 16-bit halves.
\* the same with the format "0x%X": no zero padding
sprintf_0x04X_unpadded(v) ==
    IF v >= 0 THEN "0x" \o HexDigits(v)
    ELSE LET m == -(v + 1)
         IN  "0x" \o HexDigits(HALF_RANGE - 1 - (m \div HALF_RANGE))
                  \o ZeroPad(HexDigits(HALF_RANGE - 1 - (m % HALF_RANGE)), 4)

sprintf_0x04X(v) ==
    IF v >= 0 THEN "0x" \o ZeroPad(HexDigits(v), 4)
    ELSE LET m == -(v + 1)
         IN  "0x" \o HexDigits(HALF_RANGE - 1 - (m \div HALF_RANGE))
                  \o ZeroPad(HexDigits(HALF_RANGE - 1 - (m % HALF_RANGE)), 4)

\* part.size >= program_size where program_size is converted to unsigned int:
\* a negative int becomes a value >= 2^31, above every partition size
unsigned_ge(size, program_size) ==
    IF program_size < 0 THEN FALSE ELSE size >= program_size

(***************************************************************************)
(* One line of the execution string                                        *)
(***************************************************************************)
LogLine(t, d, text) == [time |-> t, duration |-> d, description |-> text]

(***************************************************************************)
(* State                                                                   *)
(***************************************************************************)
VARIABLES
    variant,            \* "extended" or "minimal": which program runs
    vectors,            \* main: vector table loaded by parse_args
    delays,             \* main: device delay table loaded by parse_args
    external_files,     \* global: program catalog
    partition_table,    \* global
    pcb_table,          \* global
    ready_queue,        \* global (extended variant)
    parent_child_map,   \* global (extended variant)
    next_pid,           \* global (extended variant)
    current_time,       \* main: the clock
    current_pid,        \* main (extended variant)
    in_child_block,     \* main (extended variant)
    in_parent_block,    \* main (extended variant)
    block_pid,          \* main (extended variant)
    execution,          \* main: the log built so far
    trace,              \* the trace lines read so far, in file order
    status,             \* "running", "aborted" (terminated abnormally), "done"
    output              \* <<>> until execution.txt is written, then <<file>>

inputs == <<variant, vectors, delays, external_files>>
tables == <<partition_table, pcb_table, ready_queue, parent_child_map, next_pid>>
blocks == <<current_pid, in_child_block, in_parent_block, block_pid>>
vars == <<variant, vectors, delays, external_files, partition_table, pcb_table,
          ready_queue, parent_child_map, next_pid, current_time, current_pid,
          in_child_block, in_parent_block, block_pid, execution, trace,
          status, output>>

(***************************************************************************)
(* Inputs of a run                                                         *)
(***************************************************************************)
\* external program catalog file: name,size lines, in file order
Catalog == <<[program_name |-> "a", size |-> 20],
             [program_name |-> "b", size |-> 50],
             [program_name |-> "a", size |-> 5],
             [program_name |-> "free", size |-> 8]>>

\* trace file lines
Lines == {"CPU,50", "CPU,-5", "CPU,", "FORK,10", "FORK", "FORK,",
          "EXEC a", "EXEC a,", "EXEC a,50", "EXEC b,1", "EXEC z,0", "EXEC free,1", "EXEC,5",
          "EXECX,1", "SYSCALL,0", "END_IO,1", "SYSCALL,3", "END_IO,7",
          "END_IO,-2",
          "IF_CHILD,0", "IF_PARENT,0", "ENDIF,0", "NOP,1"}

\* the FORK and EXEC lines among them: runs made of these alone go deeper
CallLines == {"FORK,10", "EXEC a,50", "EXEC b,1", "EXEC z,0"}

\* a FORK, two EXECs and the markers of a conditional block
MarkedLines == {"FORK,10", "EXEC a,50", "EXEC free,1",
                "IF_CHILD,0", "IF_PARENT,0", "ENDIF,0"}

\* the trace files explored
WithinBounds(lines) ==
    \/ Len(lines) <= MaxEvents
    \/ /\ Len(lines) <= MaxCalls
       /\ \A i \in 1..Len(lines) : lines[i] \in CallLines
    \/ /\ Len(lines) <= MaxMarked
       /\ \A i \in 1..Len(lines) : lines[i] \in MarkedLines

\* values the two uninitialised int fields of a PCB may hold
Indeterminate == {[ppid |-> -1, priority |-> 7], [ppid |-> 7, priority |-> 0]}

\* outcomes of reading a vector element past its end: the process is killed,
\* or the read yields whatever the memory holds
OutOfBoundsReads == {[crash |-> TRUE, value |-> 0],
                     [crash |-> FALSE, value |-> 9],
                     [crash |-> FALSE, value |-> -4]}

(***************************************************************************)
(* Functions shared by both variants                                       *)
(***************************************************************************)
\* simulate_cpu with a clock that runs one unit past the logged duration
simulate_cpu_overrun(duration, time) ==
    [result |-> <<LogLine(time, duration, "CPU execution")>>,
     current_time |-> time + duration + 1]

\* simulate_cpu(duration, current_time&)
simulate_cpu(duration, time) ==
    [result |-> <<LogLine(time, duration, "CPU execution")>>,
     current_time |-> time + duration]

\* execute_iret(current_time&)
execute_iret(time) ==
    [result |-> <<LogLine(time, 1, "IRET")>>, current_time |-> time + 1]

\* restore_context that logs CONTEXT_TIME but advances the clock by 1
restore_context_unit_step(time) ==
    [result |-> <<LogLine(time, CONTEXT_TIME, "context restored")>>,
     current_time |-> time + 1]

\* restore_context(current_time&)
restore_context(time) ==
    [result |-> <<LogLine(time, CONTEXT_TIME, "context restored")>>,
     current_time |-> time + CONTEXT_TIME]

\* switch_to_user_mode that logs its entry and leaves the clock alone
switch_to_user_mode_untimed(time) ==
    [result |-> <<LogLine(time, 1, "switch to user mode")>>,
     current_time |-> time]

\* switch_to_user_mode(current_time&)
switch_to_user_mode(time) ==
    [result |-> <<LogLine(time, 1, "switch to user mode")>>,
     current_time |-> time + 1]

\* the exit calls with restore_context and execute_iret interchanged
return_from_interrupt_reordered(time) ==
    LET a == restore_context(time)
        b == execute_iret(a.current_time)
        c == switch_to_user_mode(b.current_time)
    IN  [result |-> a.result \o b.result \o c.result,
         current_time |-> c.current_time]

\* the three calls that end every handler:
\*   result += execute_iret(current_time);
\*   result += restore_context(current_time);
\*   result += switch_to_user_mode(current_time);
return_from_interrupt(time) ==
    LET a == execute_iret(time)
        b == restore_context(a.current_time)
        c == switch_to_user_mode(b.current_time)
    IN  [result |-> a.result \o b.result \o c.result,
         current_time |-> c.current_time]

\* vectors.at(intr_num) throws std::out_of_range unless 0 <= intr_num < size
\* (a negative int converts to a huge size_t)
at_throws(vec, index) == index < 0 \/ index >= Len(vec)

\* intr_boilerplate that reads the vector with operator[] instead of at():
\* no exception; past the end of the table the address printed is empty
intr_boilerplate_unchecked(time, intr_num, context_save_time, vecs) ==
    LET t1 == time + 1
        t2 == t1 + context_save_time
        vector_address == sprintf_0x04X(ADDR_BASE + (intr_num * VECTOR_SIZE))
        t3 == t2 + 1
        t4 == t3 + 1
        isr_address == IF at_throws(vecs, intr_num) THEN ""
                       ELSE vecs[intr_num + 1]
    IN  [threw |-> FALSE,
         execution |->
           <<LogLine(time, 1, "switch to kernel mode"),
             LogLine(t1, context_save_time, "context saved"),
             LogLine(t2, 1, "find vector " \o to_string(intr_num)
                              \o " in memory position " \o vector_address),
             LogLine(t3, 1, "load address " \o isr_address
                              \o " into the PC")>>,
         current_time |-> t4]

\* intr_boilerplate(current_time, intr_num, context_save_time, vectors):
\* current_time is passed by value; the pair (execution, current_time) is
\* returned, or std::out_of_range leaves the function.  For intr_num < 0 the
\* sprintf writes 11 bytes into vector_address_c[10] before at() throws.
intr_boilerplate(time, intr_num, context_save_time, vecs) ==
    LET t1 == time + 1
        t2 == t1 + context_save_time
        vector_address == sprintf_0x04X(ADDR_BASE + (intr_num * VECTOR_SIZE))
        t3 == t2 + 1
        t4 == t3 + 1
    IN  IF at_throws(vecs, intr_num)
        THEN [threw |-> TRUE, execution |-> <<>>, current_time |-> time]
        ELSE [threw |-> FALSE,
              execution |->
                <<LogLine(time, 1, "switch to kernel mode"),
                  LogLine(t1, context_save_time, "context saved"),
                  LogLine(t2, 1, "find vector " \o to_string(intr_num)
                                   \o " in memory position " \o vector_address),
                  LogLine(t3, 1, "load address " \o vecs[intr_num + 1]
                                   \o " into the PC")>>,
              current_time |-> t4]

\* execute_isr that always reads the delay of device 0
execute_isr_first_delay(device_num, time, dels, isr_type, oob) ==
    LET in_range == device_num >= 0 /\ device_num < Len(dels)
        isr_delay == IF in_range THEN dels[1] ELSE oob.value
    IN  IF ~in_range /\ oob.crash
        THEN [threw |-> TRUE, result |-> <<>>, current_time |-> time]
        ELSE [threw |-> FALSE,
              result |-> <<LogLine(time, isr_delay, isr_type \o ": run the ISR")>>,
              current_time |-> time + isr_delay]

\* execute_isr(device_num, current_time&, delays, isr_type): delays[device_num]
\* is unchecked; past the end of the table the read is undefined (oob)
execute_isr(device_num, time, dels, isr_type, oob) ==
    LET in_range == device_num >= 0 /\ device_num < Len(dels)
        isr_delay == IF in_range THEN dels[device_num + 1] ELSE oob.value
    IN  IF ~in_range /\ oob.crash
        THEN [threw |-> TRUE, result |-> <<>>, current_time |-> time]
        ELSE [threw |-> FALSE,
              result |-> <<LogLine(time, isr_delay, isr_type \o ": run the ISR")>>,
              current_time |-> time + isr_delay]

\* handle_interrupt(device_num, current_time&, vectors, delays, interrupt_type)
handle_interrupt(device_num, time, vecs, dels, interrupt_type, oob) ==
    LET bp == intr_boilerplate(time, device_num, CONTEXT_TIME, vecs)
        isr == execute_isr(device_num, bp.current_time, dels, interrupt_type, oob)
        ret == return_from_interrupt(isr.current_time)
    IN  IF bp.threw
        THEN [threw |-> TRUE, result |-> <<>>, current_time |-> time]
        ELSE IF isr.threw
        THEN [threw |-> TRUE, result |-> <<>>, current_time |-> bp.current_time]
        ELSE [threw |-> FALSE,
              result |-> bp.execution \o isr.result \o ret.result,
              current_time |-> ret.current_time]

\* parse_trace whose value defaults to 0 when the digits are missing
parse_trace_zero_default(line) ==
    LET parts == split_delim(line, ",")
        n == stoi(parts[2])
    IN  IF Len(parts) < 2
        THEN [activity |-> "null", value |-> 0]
        ELSE [activity |-> parts[1],
              value |-> IF n.threw THEN 0 ELSE n.value]

\* parse_trace(trace): (activity, value)
parse_trace(line) ==
    LET parts == split_delim(line, ",")
        n == stoi(parts[2])
    IN  IF Len(parts) < 2
        THEN [activity |-> "null", value |-> -1]
        ELSE [activity |-> parts[1],
              value |-> IF n.threw THEN -1 ELSE n.value]

\* a loop over a vector that stops at the first element passing its test:
\* the least of the indices that pass, 0 if none does
FirstIndex(hits) ==
    IF hits = {} THEN 0 ELSE CHOOSE i \in hits : \A j \in hits : i <= j

(***************************************************************************)
(* Extended variant: src/interrupts.cpp                                    *)
(***************************************************************************)
init_partition_table ==
    <<[number |-> 0, size |-> 40, code |-> "free"],
      [number |-> 1, size |-> 25, code |-> "free"],
      [number |-> 2, size |-> 15, code |-> "free"],
      [number |-> 3, size |-> 10, code |-> "free"],
      [number |-> 4, size |-> 8, code |-> "free"]>>

init_process ==
    [pid |-> 0, ppid |-> -1, program_name |-> "init", partition_number |-> 5,
     size |-> 0, state |-> "running", priority |-> 0]

\* best fit: the smallest free partition that is large enough
find_available_partition_best_fit(program_size) ==
    LET Fits(part) == part.code = "free" /\ unsigned_ge(part.size, program_size)
        fitting == {i \in 1..Len(partition_table) : Fits(partition_table[i])}
    IN  IF fitting = {} THEN -1
        ELSE partition_table[CHOOSE i \in fitting : \A j \in fitting :
                 partition_table[i].size <= partition_table[j].size].number

\* the first free partition, whatever its size
find_available_partition_any_size(program_size) ==
    LET IsFree(part) == part.code = "free"
        i == FirstIndex({k \in 1..Len(partition_table) :
                            IsFree(partition_table[k])})
    IN  IF i = 0 THEN -1 ELSE partition_table[i].number

\* find_available_partition(program_size): number of the first partition, in
\* table order, that is "free" and large enough; -1 if there is none
find_available_partition(program_size) ==
    LET Fits(part) == part.code = "free" /\ unsigned_ge(part.size, program_size)
        i == FirstIndex({k \in 1..Len(partition_table) :
                            Fits(partition_table[k])})
    IN  IF i = 0 THEN -1 ELSE partition_table[i].number

\* an insertion at the head of the queue
add_to_ready_queue_front(queue, pid) == <<pid>> \o queue

\* add_to_ready_queue(pid): ready_queue.push(pid)
add_to_ready_queue(queue, pid) == Append(queue, pid)

\* a stack instead of a queue: the pid pushed last is taken
get_next_process_newest(queue) ==
    IF queue = <<>> THEN [next |-> -1, ready_queue |-> queue]
    ELSE [next |-> queue[Len(queue)],
          ready_queue |-> SubSeq(queue, 1, Len(queue) - 1)]

\* get_next_process(): front of the queue, popped; -1 on an empty queue
get_next_process(queue) ==
    IF queue = <<>> THEN [next |-> -1, ready_queue |-> queue]
    ELSE [next |-> Head(queue), ready_queue |-> Tail(queue)]

\* parent_child_map[key].push_back(value)
map_push_back(map, key, value) ==
    [k \in (DOMAIN map) \cup {key} |->
        IF k = key
        THEN Append(IF key \in DOMAIN map THEN map[key] ELSE <<>>, value)
        ELSE map[k]]

\* a clone whose pid is left as copied from the parent
clone_pcb_keeps_pid(parent, new_pid, cur_pid) ==
    [parent EXCEPT !.ppid = cur_pid, !.priority = 1]

\* a clone that waits in state "ready" until it is scheduled
clone_pcb_ready(parent, new_pid, cur_pid) ==
    [parent EXCEPT !.pid = new_pid, !.ppid = cur_pid, !.priority = 1,
                   !.state = "ready"]

\* PCB child = parent; child.pid = next_pid++; child.ppid = current_pid;
\* child.priority = 1
clone_pcb(parent, new_pid, cur_pid) ==
    [parent EXCEPT !.pid = new_pid, !.ppid = cur_pid, !.priority = 1]

\* handle_fork that takes the new pid before it looks for the parent
handle_fork_consumes_pid(time, vecs, cur_pid) ==
    LET bp == intr_boilerplate(time, 2, CONTEXT_TIME, vecs)
        t0 == bp.current_time
        pi == FirstIndex({k \in 1..Len(pcb_table) :
                             pcb_table[k].pid = cur_pid})
        found == pi # 0
        err == return_from_interrupt(t0 + 1)
        child == clone_pcb(pcb_table[pi], next_pid, cur_pid)
        t1 == t0 + 1
        ret == return_from_interrupt(t1)
        same == [threw |-> FALSE, result |-> <<>>, current_time |-> time,
                 pcb_table |-> pcb_table, parent_child_map |-> parent_child_map,
                 ready_queue |-> ready_queue, next_pid |-> next_pid]
    IN  IF bp.threw THEN [same EXCEPT !.threw = TRUE]
        ELSE IF ~found
        THEN [same EXCEPT
                !.result = bp.execution
                    \o <<LogLine(t0, 1, "ERROR: Parent not found")>>
                    \o err.result,
                !.current_time = err.current_time,
                !.next_pid = next_pid + 1]
        ELSE [same EXCEPT
                !.result = bp.execution
                    \o <<LogLine(t0, 1, "cloning the PCB"),
                         LogLine(t1, 0, "scheduler called")>>
                    \o ret.result,
                !.current_time = ret.current_time,
                !.pcb_table = Append(pcb_table, child),
                !.parent_child_map =
                    map_push_back(parent_child_map, cur_pid, child.pid),
                !.ready_queue = add_to_ready_queue(ready_queue, child.pid),
                !.next_pid = next_pid + 1]

\* handle_fork(current_time&, vectors, current_pid)
handle_fork(time, vecs, cur_pid) ==
    LET bp == intr_boilerplate(time, 2, CONTEXT_TIME, vecs)
        t0 == bp.current_time
        IsCaller(pcb) == pcb.pid = cur_pid
        pi == FirstIndex({k \in 1..Len(pcb_table) : IsCaller(pcb_table[k])})
        found == pi # 0
        err == return_from_interrupt(t0 + 1)
        parent == pcb_table[pi]
        child == clone_pcb(parent, next_pid, cur_pid)
        fork_duration == 1
        sched_duration == 0
        t1 == t0 + fork_duration
        ret == return_from_interrupt(t1)
        same == [threw |-> FALSE, result |-> <<>>, current_time |-> time,
                 pcb_table |-> pcb_table, parent_child_map |-> parent_child_map,
                 ready_queue |-> ready_queue, next_pid |-> next_pid]
    IN  IF bp.threw THEN [same EXCEPT !.threw = TRUE]
        ELSE IF ~found
        THEN [same EXCEPT
                !.result = bp.execution
                    \o <<LogLine(t0, 1, "ERROR: Parent not found")>>
                    \o err.result,
                !.current_time = err.current_time]
        ELSE [same EXCEPT
                !.result = bp.execution
                    \o <<LogLine(t0, fork_duration, "cloning the PCB"),
                         LogLine(t1, sched_duration, "scheduler called")>>
                    \o ret.result,
                !.current_time = ret.current_time,
                !.pcb_table = Append(pcb_table, child),
                !.parent_child_map =
                    map_push_back(parent_child_map, cur_pid, child.pid),
                !.ready_queue = add_to_ready_queue(ready_queue, child.pid),
                !.next_pid = next_pid + 1]

\* a catalog search without the break: the last file of that name wins
find_program_last_match(files, program_name) ==
    LET hits == {k \in 1..Len(files) : files[k].program_name = program_name}
    IN  IF hits = {} THEN 0 ELSE CHOOSE i \in hits : \A j \in hits : i >= j

\* a catalog search that does not compare names: the first file, if any
find_program_any_name(files, program_name) ==
    IF files = <<>> THEN 0 ELSE 1

\* the catalog search of handle_exec: index of the first file, in catalog
\* order, whose program_name equals the requested one; 0 if there is none
find_program(files, program_name) ==
    LET IsProgram(file) == file.program_name = program_name
    IN  FirstIndex({k \in 1..Len(files) : IsProgram(files[k])})

\* a loader that takes 1 time unit per MB
loader_time_of_unit_rate(program_mb_size) == program_mb_size

\* int loader_time = program_mb_size * 15
loader_time_of(program_mb_size) == program_mb_size * 15

\* handle_exec whose PCB update loop does not test the pid: every record is
\* overwritten
handle_exec_updates_all(program_name, time, vecs, files, cur_pid) ==
    LET bp == intr_boilerplate(time, 3, CONTEXT_TIME, vecs)
        t0 == bp.current_time
        fi == find_program(files, program_name)
        found == fi # 0
        program_size == IF found THEN files[fi].size ELSE 0
        err == return_from_interrupt(t0 + 1)
        partition_to_use == find_available_partition(program_size)
        ci == FirstIndex({k \in 1..Len(partition_table) :
                             partition_table[k].number = partition_to_use})
        loader_time == loader_time_of(program_size)
        t1 == t0 + loader_time
        t2 == t1 + 1
        t3 == t2 + 3
        ret == return_from_interrupt(t3)
        same == [threw |-> FALSE, result |-> <<>>, current_time |-> time,
                 partition_table |-> partition_table, pcb_table |-> pcb_table]
    IN  IF bp.threw THEN [same EXCEPT !.threw = TRUE]
        ELSE IF ~found
        THEN [same EXCEPT
                !.result = bp.execution
                    \o <<LogLine(t0, 1, "ERROR: Program not found")>>
                    \o err.result,
                !.current_time = err.current_time]
        ELSE IF partition_to_use = -1
        THEN [same EXCEPT
                !.result = bp.execution
                    \o <<LogLine(t0, 1, "ERROR: No partition")>>
                    \o err.result,
                !.current_time = err.current_time]
        ELSE [same EXCEPT
                !.result = bp.execution
                    \o <<LogLine(t0, loader_time,
                                 "loading " \o program_name
                                   \o " from disk to partition "
                                   \o to_string(partition_to_use)),
                         LogLine(t1, 1, "marking partition as occupied"),
                         LogLine(t2, 3, "updating PCB"),
                         LogLine(t3, 0, "scheduler called")>>
                    \o ret.result,
                !.current_time = ret.current_time,
                !.partition_table =
                    [partition_table EXCEPT ![ci].code = program_name],
                !.pcb_table =
                    [k \in 1..Len(pcb_table) |->
                        [pcb_table[k] EXCEPT
                            !.program_name = program_name,
                            !.partition_number = partition_to_use,
                            !.size = program_size]]]

\* handle_exec that marks the partition without logging the marking step
handle_exec_silent_mark(program_name, time, vecs, files, cur_pid) ==
    LET bp == intr_boilerplate(time, 3, CONTEXT_TIME, vecs)
        t0 == bp.current_time
        fi == find_program(files, program_name)
        found == fi # 0
        program_size == IF found THEN files[fi].size ELSE 0
        err == return_from_interrupt(t0 + 1)
        partition_to_use == find_available_partition(program_size)
        ci == FirstIndex({k \in 1..Len(partition_table) :
                             partition_table[k].number = partition_to_use})
        loader_time == loader_time_of(program_size)
        t1 == t0 + loader_time
        t3 == t1 + 3
        pi == FirstIndex({k \in 1..Len(pcb_table) :
                             pcb_table[k].pid = cur_pid})
        ret == return_from_interrupt(t3)
        same == [threw |-> FALSE, result |-> <<>>, current_time |-> time,
                 partition_table |-> partition_table, pcb_table |-> pcb_table]
    IN  IF bp.threw THEN [same EXCEPT !.threw = TRUE]
        ELSE IF ~found
        THEN [same EXCEPT
                !.result = bp.execution
                    \o <<LogLine(t0, 1, "ERROR: Program not found")>>
                    \o err.result,
                !.current_time = err.current_time]
        ELSE IF partition_to_use = -1
        THEN [same EXCEPT
                !.result = bp.execution
                    \o <<LogLine(t0, 1, "ERROR: No partition")>>
                    \o err.result,
                !.current_time = err.current_time]
        ELSE [same EXCEPT
                !.result = bp.execution
                    \o <<LogLine(t0, loader_time,
                                 "loading " \o program_name
                                   \o " from disk to partition "
                                   \o to_string(partition_to_use)),
                         LogLine(t1, 3, "updating PCB"),
                         LogLine(t3, 0, "scheduler called")>>
                    \o ret.result,
                !.current_time = ret.current_time,
                !.partition_table =
                    [partition_table EXCEPT ![ci].code = program_name],
                !.pcb_table =
                    IF pi = 0 THEN pcb_table
                    ELSE [pcb_table EXCEPT
                            ![pi].program_name = program_name,
                            ![pi].partition_number = partition_to_use,
                            ![pi].size = program_size]]

\* handle_exec whose error branches end the run instead of returning
handle_exec_fatal_errors(program_name, time, vecs, files, cur_pid) ==
    LET bp == intr_boilerplate(time, 3, CONTEXT_TIME, vecs)
        t0 == bp.current_time
        fi == find_program(files, program_name)
        found == fi # 0
        program_size == IF found THEN files[fi].size ELSE 0
        partition_to_use == find_available_partition(program_size)
        ci == FirstIndex({k \in 1..Len(partition_table) :
                             partition_table[k].number = partition_to_use})
        loader_time == loader_time_of(program_size)
        t1 == t0 + loader_time
        t2 == t1 + 1
        t3 == t2 + 3
        pi == FirstIndex({k \in 1..Len(pcb_table) :
                             pcb_table[k].pid = cur_pid})
        ret == return_from_interrupt(t3)
    IN  IF bp.threw \/ ~found \/ partition_to_use = -1
        THEN [threw |-> TRUE, result |-> <<>>, current_time |-> time,
              partition_table |-> partition_table, pcb_table |-> pcb_table]
        ELSE [threw |-> FALSE,
              result |-> bp.execution
                  \o <<LogLine(t0, loader_time,
                               "loading " \o program_name
                                 \o " from disk to partition "
                                 \o to_string(partition_to_use)),
                       LogLine(t1, 1, "marking partition as occupied"),
                       LogLine(t2, 3, "updating PCB"),
                       LogLine(t3, 0, "scheduler called")>>
                  \o ret.result,
              current_time |-> ret.current_time,
              partition_table |->
                  [partition_table EXCEPT ![ci].code = program_name],
              pcb_table |->
                  IF pi = 0 THEN pcb_table
                  ELSE [pcb_table EXCEPT
                          ![pi].program_name = program_name,
                          ![pi].partition_number = partition_to_use,
                          ![pi].size = program_size]]

\* handle_exec(program_name, current_time&, vectors, external_files, current_pid)
handle_exec(program_name, time, vecs, files, cur_pid) ==
    LET bp == intr_boilerplate(time, 3, CONTEXT_TIME, vecs)
        t0 == bp.current_time
        fi == find_program(files, program_name)
        found == fi # 0
        program_size == IF found THEN files[fi].size ELSE 0
        err == return_from_interrupt(t0 + 1)
        partition_to_use == find_available_partition(program_size)
        IsChosen(part) == part.number = partition_to_use
        ci == FirstIndex({k \in 1..Len(partition_table) :
                             IsChosen(partition_table[k])})
        program_mb_size == program_size
        loader_time == loader_time_of(program_mb_size)
        t1 == t0 + loader_time
        mark_duration == 1
        t2 == t1 + mark_duration
        update_duration == 3
        t3 == t2 + update_duration
        IsCaller(pcb) == pcb.pid = cur_pid
        pi == FirstIndex({k \in 1..Len(pcb_table) : IsCaller(pcb_table[k])})
        sched_duration == 0
        ret == return_from_interrupt(t3)
        same == [threw |-> FALSE, result |-> <<>>, current_time |-> time,
                 partition_table |-> partition_table, pcb_table |-> pcb_table]
    IN  IF bp.threw THEN [same EXCEPT !.threw = TRUE]
        ELSE IF ~found
        THEN [same EXCEPT
                !.result = bp.execution
                    \o <<LogLine(t0, 1, "ERROR: Program not found")>>
                    \o err.result,
                !.current_time = err.current_time]
        ELSE IF partition_to_use = -1
        THEN [same EXCEPT
                !.result = bp.execution
                    \o <<LogLine(t0, 1, "ERROR: No partition")>>
                    \o err.result,
                !.current_time = err.current_time]
        ELSE [same EXCEPT
                !.result = bp.execution
                    \o <<LogLine(t0, loader_time,
                                 "loading " \o program_name
                                   \o " from disk to partition "
                                   \o to_string(partition_to_use)),
                         LogLine(t1, mark_duration,
                                 "marking partition as occupied"),
                         LogLine(t2, update_duration, "updating PCB"),
                         LogLine(t3, sched_duration, "scheduler called")>>
                    \o ret.result,
                !.current_time = ret.current_time,
                !.partition_table =
                    [partition_table EXCEPT ![ci].code = program_name],
                !.pcb_table =
                    IF pi = 0 THEN pcb_table
                    ELSE [pcb_table EXCEPT
                            ![pi].program_name = program_name,
                            ![pi].partition_number = partition_to_use,
                            ![pi].size = program_size]]

(***************************************************************************)
(* Minimal variant: src/os_simulator/os_simulator/interrupts.cpp           *)
(***************************************************************************)
min_init_partition_table ==
    <<[number |-> 1, size |-> 40, code |-> "free"],
      [number |-> 2, size |-> 25, code |-> "free"],
      [number |-> 3, size |-> 15, code |-> "free"],
      [number |-> 4, size |-> 10, code |-> "free"],
      [number |-> 5, size |-> 8, code |-> "free"],
      [number |-> 6, size |-> 2, code |-> "init"]>>

\* the init PCB; ppid and priority are never assigned
min_init_process(any_ppid, any_priority) ==
    [pid |-> 0, ppid |-> any_ppid, program_name |-> "init",
     partition_number |-> 6, size |-> 2, state |-> "running",
     priority |-> any_priority]

\* PCB child = parent; child.pid = pcb_table.size()
min_clone_pcb(parent, new_pid) == [parent EXCEPT !.pid = new_pid]

\* handle_fork that moves the parent out of its partition when it clones it
min_handle_fork_moves_parent(time, vecs) ==
    LET bp == intr_boilerplate(time, 2, CONTEXT_TIME, vecs)
        t0 == bp.current_time
        parent == pcb_table[1]
        child == min_clone_pcb(parent, Len(pcb_table))
        ret == return_from_interrupt(t0 + 1)
    IN  IF bp.threw
        THEN [threw |-> TRUE, result |-> <<>>, current_time |-> time,
              pcb_table |-> pcb_table]
        ELSE [threw |-> FALSE,
              result |-> bp.execution
                  \o <<LogLine(t0, 1, "PCB cloned for child process")>>
                  \o ret.result,
              current_time |-> ret.current_time,
              pcb_table |->
                  Append([pcb_table EXCEPT ![1].partition_number = -1],
                         child)]

\* handle_fork that builds the child but does not push it onto the table
min_handle_fork_no_push(time, vecs) ==
    LET bp == intr_boilerplate(time, 2, CONTEXT_TIME, vecs)
        t0 == bp.current_time
        ret == return_from_interrupt(t0 + 1)
    IN  IF bp.threw
        THEN [threw |-> TRUE, result |-> <<>>, current_time |-> time,
              pcb_table |-> pcb_table]
        ELSE [threw |-> FALSE,
              result |-> bp.execution
                  \o <<LogLine(t0, 1, "PCB cloned for child process")>>
                  \o ret.result,
              current_time |-> ret.current_time,
              pcb_table |-> pcb_table]

\* handle_fork(current_time&, vectors)
min_handle_fork(time, vecs) ==
    LET bp == intr_boilerplate(time, 2, CONTEXT_TIME, vecs)
        t0 == bp.current_time
        parent == pcb_table[1]
        child == min_clone_pcb(parent, Len(pcb_table))
        ret == return_from_interrupt(t0 + 1)
    IN  IF bp.threw
        THEN [threw |-> TRUE, result |-> <<>>, current_time |-> time,
              pcb_table |-> pcb_table]
        ELSE [threw |-> FALSE,
              result |-> bp.execution
                  \o <<LogLine(t0, 1, "PCB cloned for child process")>>
                  \o ret.result,
              current_time |-> ret.current_time,
              pcb_table |-> Append(pcb_table, child)]

\* handle_exec(program_name, current_time&, vectors, external_files)
min_handle_exec(program_name, time, vecs, files) ==
    LET bp == intr_boilerplate(time, 3, CONTEXT_TIME, vecs)
        t0 == bp.current_time
        IsProgram(file) == file.program_name = program_name
        fi == FirstIndex({k \in 1..Len(files) : IsProgram(files[k])})
        found == fi # 0
        program_size == IF found THEN files[fi].size ELSE 0
        err == return_from_interrupt(t0 + 1)
        Fits(part) == part.code = "free" /\ unsigned_ge(part.size, program_size)
        ci == FirstIndex({k \in 1..Len(partition_table) :
                             Fits(partition_table[k])})
        partition_to_use == IF ci = 0 THEN -1 ELSE partition_table[ci].number
        loader_time == program_size * 15
        t1 == t0 + loader_time
        ret == return_from_interrupt(t1 + 1)
        same == [threw |-> FALSE, result |-> <<>>, current_time |-> time,
                 partition_table |-> partition_table, pcb_table |-> pcb_table]
    IN  IF bp.threw THEN [same EXCEPT !.threw = TRUE]
        ELSE IF ~found
        THEN [same EXCEPT
                !.result = bp.execution
                    \o <<LogLine(t0, 1, "ERROR: Program not found")>>
                    \o err.result,
                !.current_time = err.current_time]
        ELSE IF partition_to_use = -1
        THEN [same EXCEPT
                !.result = bp.execution
                    \o <<LogLine(t0, 1, "ERROR: No partition available")>>
                    \o err.result,
                !.current_time = err.current_time]
        ELSE [same EXCEPT
                !.result = bp.execution
                    \o <<LogLine(t0, loader_time,
                                 "loading " \o program_name
                                   \o " from disk to partition "
                                   \o to_string(partition_to_use)),
                         LogLine(t1, 1, "PCB updated with new program info")>>
                    \o ret.result,
                !.current_time = ret.current_time,
                !.partition_table =
                    [partition_table EXCEPT ![ci].code = program_name],
                !.pcb_table =
                    [pcb_table EXCEPT
                        ![1].program_name = program_name,
                        ![1].partition_number = partition_to_use,
                        ![1].size = program_size]]

(***************************************************************************)
(* Final system state written after the log                                *)
(***************************************************************************)
partition_line(part) ==
    "Partition " \o to_string(part.number) \o ": " \o to_string(part.size)
        \o " MB - Code: " \o part.code

pcb_tail(pcb) ==
    ": " \o pcb.program_name \o " (Partition "
        \o to_string(pcb.partition_number) \o ", " \o to_string(pcb.size)
        \o " MB, State: " \o pcb.state \o ")"

pcb_line(pcb) ==
    "PID " \o to_string(pcb.pid)
        \o (IF pcb.ppid # -1
            THEN " (Parent: " \o to_string(pcb.ppid) \o ")" ELSE "")
        \o pcb_tail(pcb)

min_pcb_line(pcb) == "PID " \o to_string(pcb.pid) \o pcb_tail(pcb)

final_state ==
    <<"Final System State", "Partition Table:">>
        \o [i \in 1..Len(partition_table) |-> partition_line(partition_table[i])]
        \o <<"PCB Table:">>
        \o [i \in 1..Len(pcb_table) |-> pcb_line(pcb_table[i])]

min_final_state ==
    <<"=== FINAL SYSTEM STATE ===", "Partition Table:">>
        \o [i \in 1..Len(partition_table) |-> partition_line(partition_table[i])]
        \o <<"PCB Table:">>
        \o [i \in 1..Len(pcb_table) |-> min_pcb_line(pcb_table[i])]

(***************************************************************************)
(* Initial state: after parse_args, initialize_system and, in the extended *)
(* variant, load_external_files                                            *)
(***************************************************************************)
\* the vector-table and delay-table files given on the command line
TableFiles ==
    {[vectors |-> <<"v0">>, delays |-> <<20>>],
     [vectors |-> <<"0X01E3", "0X029C", "0X0695", "0X042B">>,
      delays |-> <<20, -3>>]}

InitMain ==
    /\ \E f \in TableFiles : vectors = f.vectors /\ delays = f.delays
    /\ current_time = 0
    /\ current_pid = 0
    /\ in_child_block = FALSE
    /\ in_parent_block = FALSE
    /\ block_pid = -1
    /\ execution = <<>>
    /\ trace = <<>>
    /\ status = "running"
    /\ output = <<>>

InitExtended ==
    /\ variant = "extended"
    /\ external_files = Catalog
    /\ partition_table = init_partition_table
    /\ pcb_table = <<init_process>>
    /\ ready_queue = <<0>>
    /\ parent_child_map = <<>>
    /\ next_pid = 1
    /\ InitMain

\* a minimal variant whose main loads the catalog as the extended one does
InitMinimal_loads_catalog ==
    /\ variant = "minimal"
    /\ external_files = Catalog
    /\ partition_table = min_init_partition_table
    /\ \E any \in Indeterminate :
           pcb_table = <<min_init_process(any.ppid, any.priority)>>
    /\ ready_queue = <<>>
    /\ parent_child_map = <<>>
    /\ next_pid = 0
    /\ InitMain

\* the minimal variant has no ready queue, no parent/child map, no pid counter
\* and never loads a catalog
InitMinimal ==
    /\ variant = "minimal"
    /\ external_files = <<>>
    /\ partition_table = min_init_partition_table
    /\ \E any \in Indeterminate :
           pcb_table = <<min_init_process(any.ppid, any.priority)>>
    /\ ready_queue = <<>>
    /\ parent_child_map = <<>>
    /\ next_pid = 0
    /\ InitMain

Init == InitExtended \/ InitMinimal

(***************************************************************************)
(* main of the extended variant: one action per branch of the loop body,   *)
(* each reading one trace line and running its handler to completion       *)
(***************************************************************************)
\* std::getline(input_file, trace) delivers the next line of the trace file
ReadLine(v, line) ==
    /\ variant = v
    /\ status = "running"
    /\ WithinBounds(Append(trace, line))
    /\ trace' = Append(trace, line)

\* auto [activity, value] = parse_trace(trace), for every line of the model
parsed == [line \in Lines |-> parse_trace(line)]
activity_of(line) == parsed[line].activity
value_of(line) == parsed[line].value

\* activity.substr(0, 4) == "EXEC", tested after the branches above it
is_exec(activity) == substr(activity, 0, 4) = "EXEC"

\* a CPU branch that writes its entry in front of the log built so far
Cpu_logs_first(line) ==
    /\ ReadLine("extended", line)
    /\ activity_of(line) = "CPU"
    /\ LET r == simulate_cpu(value_of(line), current_time)
       IN  /\ execution' = r.result \o execution
           /\ current_time' = r.current_time
    /\ UNCHANGED <<inputs, tables, blocks, status, output>>

Cpu(line) ==
    /\ ReadLine("extended", line)
    /\ activity_of(line) = "CPU"
    /\ LET r == simulate_cpu(value_of(line), current_time)
       IN  /\ execution' = execution \o r.result
           /\ current_time' = r.current_time
    /\ UNCHANGED <<inputs, tables, blocks, status, output>>

Fork(line) ==
    /\ ReadLine("extended", line)
    /\ activity_of(line) = "FORK"
    /\ LET r == handle_fork(current_time, vectors, current_pid)
       IN  /\ status' = IF r.threw THEN "aborted" ELSE status
           /\ execution' = execution \o r.result
           /\ current_time' = r.current_time
           /\ pcb_table' = r.pcb_table
           /\ parent_child_map' = r.parent_child_map
           /\ ready_queue' = r.ready_queue
           /\ next_pid' = r.next_pid
    /\ UNCHANGED <<inputs, partition_table, blocks, output>>

\* an IF_CHILD branch that charges one time unit for the marker
IfChild_costs_time(line) ==
    /\ ReadLine("extended", line)
    /\ activity_of(line) = "IF_CHILD"
    /\ in_child_block' = TRUE
    /\ in_parent_block' = FALSE
    /\ block_pid' = value_of(line)
    /\ current_time' = current_time + 1
    /\ UNCHANGED <<inputs, tables, current_pid, execution, status, output>>

\* an IF_CHILD branch that makes the newest child the current process
IfChild_enters_child(line) ==
    /\ ReadLine("extended", line)
    /\ activity_of(line) = "IF_CHILD"
    /\ in_child_block' = TRUE
    /\ in_parent_block' = FALSE
    /\ block_pid' = value_of(line)
    /\ current_pid' = next_pid - 1
    /\ UNCHANGED <<inputs, tables, current_time, execution, status, output>>

IfChild(line) ==
    /\ ReadLine("extended", line)
    /\ activity_of(line) = "IF_CHILD"
    /\ in_child_block' = TRUE
    /\ in_parent_block' = FALSE
    /\ block_pid' = value_of(line)
    /\ UNCHANGED <<inputs, tables, current_time, current_pid, execution,
                   status, output>>

IfParent(line) ==
    /\ ReadLine("extended", line)
    /\ activity_of(line) = "IF_PARENT"
    /\ in_child_block' = FALSE
    /\ in_parent_block' = TRUE
    /\ block_pid' = value_of(line)
    /\ UNCHANGED <<inputs, tables, current_time, current_pid, execution,
                   status, output>>

Endif(line) ==
    /\ ReadLine("extended", line)
    /\ activity_of(line) = "ENDIF"
    /\ in_child_block' = FALSE
    /\ in_parent_block' = FALSE
    /\ block_pid' = -1
    /\ UNCHANGED <<inputs, tables, current_time, current_pid, execution,
                   status, output>>

Exec(line) ==
    /\ ReadLine("extended", line)
    /\ activity_of(line) \notin {"CPU", "FORK", "IF_CHILD", "IF_PARENT", "ENDIF"}
    /\ is_exec(activity_of(line))
    /\ IF substr_throws(activity_of(line), 5)
       THEN /\ status' = "aborted"
            /\ UNCHANGED <<execution, current_time, partition_table, pcb_table>>
       ELSE LET program_name ==
                    substr(activity_of(line), 5, Len(activity_of(line)))
                r == handle_exec(program_name, current_time, vectors,
                                 external_files, current_pid)
            IN  /\ status' = IF r.threw THEN "aborted" ELSE status
                /\ execution' = execution \o r.result
                /\ current_time' = r.current_time
                /\ partition_table' = r.partition_table
                /\ pcb_table' = r.pcb_table
    /\ UNCHANGED <<inputs, ready_queue, parent_child_map, next_pid, blocks,
                   output>>

\* a device-interrupt branch whose handler also queues the root process
Interrupt_wakes_process(line) ==
    /\ ReadLine("extended", line)
    /\ activity_of(line) \in {"SYSCALL", "END_IO"}
    /\ \E oob \in OutOfBoundsReads :
         LET r == handle_interrupt(value_of(line), current_time, vectors,
                                   delays, activity_of(line), oob)
         IN  /\ status' = IF r.threw THEN "aborted" ELSE status
             /\ execution' = execution \o r.result
             /\ current_time' = r.current_time
    /\ ready_queue' = add_to_ready_queue(ready_queue, 0)
    /\ UNCHANGED <<inputs, partition_table, pcb_table, parent_child_map,
                   next_pid, blocks, output>>

Interrupt(line) ==
    /\ ReadLine("extended", line)
    /\ activity_of(line) \in {"SYSCALL", "END_IO"}
    /\ \E oob \in OutOfBoundsReads :
         LET r == handle_interrupt(value_of(line), current_time, vectors,
                                   delays, activity_of(line), oob)
         IN  /\ status' = IF r.threw THEN "aborted" ELSE status
             /\ execution' = execution \o r.result
             /\ current_time' = r.current_time
    /\ UNCHANGED <<inputs, tables, blocks, output>>

\* no branch of the if / else-if chain matches: the line has no effect
Skip(line) ==
    /\ ReadLine("extended", line)
    /\ activity_of(line) \notin {"CPU", "FORK", "IF_CHILD", "IF_PARENT",
                                 "ENDIF", "SYSCALL", "END_IO"}
    /\ ~is_exec(activity_of(line))
    /\ UNCHANGED <<inputs, tables, blocks, current_time, execution, status,
                   output>>

\* std::getline fails at the end of the file: the final system state is
\* appended and execution.txt is written
EndOfTrace ==
    /\ variant = "extended"
    /\ status = "running"
    /\ status' = "done"
    /\ output' = <<[log |-> execution, final |-> final_state]>>
    /\ UNCHANGED <<inputs, tables, blocks, current_time, execution, trace>>

(***************************************************************************)
(* main of the minimal variant                                             *)
(***************************************************************************)
MinCpu(line) ==
    /\ ReadLine("minimal", line)
    /\ activity_of(line) = "CPU"
    /\ LET r == simulate_cpu(value_of(line), current_time)
       IN  /\ execution' = execution \o r.result
           /\ current_time' = r.current_time
    /\ UNCHANGED <<inputs, tables, blocks, status, output>>

MinFork(line) ==
    /\ ReadLine("minimal", line)
    /\ activity_of(line) = "FORK"
    /\ LET r == min_handle_fork(current_time, vectors)
       IN  /\ status' = IF r.threw THEN "aborted" ELSE status
           /\ execution' = execution \o r.result
           /\ current_time' = r.current_time
           /\ pcb_table' = r.pcb_table
    /\ UNCHANGED <<inputs, partition_table, ready_queue, parent_child_map,
                   next_pid, blocks, output>>

MinExec(line) ==
    /\ ReadLine("minimal", line)
    /\ activity_of(line) \notin {"CPU", "FORK"}
    /\ is_exec(activity_of(line))
    /\ IF substr_throws(activity_of(line), 5)
       THEN /\ status' = "aborted"
            /\ UNCHANGED <<execution, current_time, partition_table, pcb_table>>
       ELSE LET program_name ==
                    substr(activity_of(line), 5, Len(activity_of(line)))
                r == min_handle_exec(program_name, current_time, vectors,
                                     external_files)
            IN  /\ status' = IF r.threw THEN "aborted" ELSE status
                /\ execution' = execution \o r.result
                /\ current_time' = r.current_time
                /\ partition_table' = r.partition_table
                /\ pcb_table' = r.pcb_table
    /\ UNCHANGED <<inputs, ready_queue, parent_child_map, next_pid, blocks,
                   output>>

MinInterrupt(line) ==
    /\ ReadLine("minimal", line)
    /\ activity_of(line) \in {"SYSCALL", "END_IO"}
    /\ \E oob \in OutOfBoundsReads :
         LET r == handle_interrupt(value_of(line), current_time, vectors,
                                   delays, activity_of(line), oob)
         IN  /\ status' = IF r.threw THEN "aborted" ELSE status
             /\ execution' = execution \o r.result
             /\ current_time' = r.current_time
    /\ UNCHANGED <<inputs, tables, blocks, output>>

MinSkip(line) ==
    /\ ReadLine("minimal", line)
    /\ activity_of(line) \notin {"CPU", "FORK", "SYSCALL", "END_IO"}
    /\ ~is_exec(activity_of(line))
    /\ UNCHANGED <<inputs, tables, blocks, current_time, execution, status,
                   output>>

MinEndOfTrace ==
    /\ variant = "minimal"
    /\ status = "running"
    /\ status' = "done"
    /\ output' = <<[log |-> execution, final |-> min_final_state]>>
    /\ UNCHANGED <<inputs, tables, blocks, current_time, execution, trace>>

(***************************************************************************)
(* Specification                                                           *)
(***************************************************************************)
Next ==
    \/ \E line \in Lines : Cpu(line)
    \/ \E line \in Lines : Fork(line)
    \/ \E line \in Lines : IfChild(line)
    \/ \E line \in Lines : IfParent(line)
    \/ \E line \in Lines : Endif(line)
    \/ \E line \in Lines : Exec(line)
    \/ \E line \in Lines : Interrupt(line)
    \/ \E line \in Lines : Skip(line)
    \/ EndOfTrace
    \/ \E line \in Lines : MinCpu(line)
    \/ \E line \in Lines : MinFork(line)
    \/ \E line \in Lines : MinExec(line)
    \/ \E line \in Lines : MinInterrupt(line)
    \/ \E line \in Lines : MinSkip(line)
    \/ MinEndOfTrace

Spec == Init /\ [][Next]_vars

(***************************************************************************)
(* The handlers of the extended variant called for any caller pid.  main   *)
(* always passes current_pid = 0; handle_fork and handle_exec take the pid *)
(* as a parameter and have a branch for a pid that is not in the table.    *)
(***************************************************************************)
\* the values of the current_pid parameter: the root, and pids that no
\* record has when the first call is made
CallerPids == {0, 1, 3}

InitCaller ==
    /\ variant = "extended"
    /\ external_files = Catalog
    /\ partition_table = init_partition_table
    /\ pcb_table = <<init_process>>
    /\ ready_queue = <<0>>
    /\ parent_child_map = <<>>
    /\ next_pid = 1
    /\ \E f \in TableFiles : vectors = f.vectors /\ delays = f.delays
    /\ current_time = 0
    /\ current_pid \in CallerPids
    /\ in_child_block = FALSE
    /\ in_parent_block = FALSE
    /\ block_pid = -1
    /\ execution = <<>>
    /\ trace = <<>>
    /\ status = "running"
    /\ output = <<>>

\* the FORK and EXEC lines given to the handlers
CallerLines == CallLines \cup {"EXEC free,1"}

NextCaller ==
    \/ \E line \in CallerLines : Fork(line)
    \/ \E line \in CallerLines : Exec(line)
    \/ EndOfTrace

SpecCaller == InitCaller /\ [][NextCaller]_vars

(***************************************************************************)
(* The ready queue used by a scheduler.  main never calls get_next_process;*)
(* here a caller takes the next process from the queue between the FORKs   *)
(* of the extended variant and makes it the current process.               *)
(***************************************************************************)
GetNextProcess ==
    /\ variant = "extended"
    /\ status = "running"
    /\ LET r == get_next_process(ready_queue)
       IN  /\ current_pid' = r.next
           /\ ready_queue' = r.ready_queue
    /\ UNCHANGED <<inputs, partition_table, pcb_table, parent_child_map,
                   next_pid, current_time, in_child_block, in_parent_block,
                   block_pid, execution, trace, status, output>>

NextScheduler ==
    \/ \E line \in CallLines : Fork(line)
    \/ GetNextProcess
    \/ EndOfTrace

SpecScheduler == InitExtended /\ [][NextScheduler]_vars

(***************************************************************************)
(* Vocabulary of the properties                                            *)
(***************************************************************************)
\* this step read a trace line (every step but the end of the trace)
ReadsLine == trace' # trace
\* the line this step read
ThisLine == trace'[Len(trace')]
\* the handler of this step ran to completion: the run was not terminated
Completes == status' = "running"
\* the log entries this step appended
Appended == SubSeq(execution', Len(execution) + 1, Len(execution'))
\* the log grew by appending
LogExtended == /\ Len(execution') >= Len(execution)
               /\ SubSeq(execution', 1, Len(execution)) = execution

RECURSIVE SumDurations(_)
SumDurations(log) ==
    IF log = <<>> THEN 0 ELSE log[1].duration + SumDurations(Tail(log))

StartsWith(text, prefix) == substr(text, 0, Len(prefix)) = prefix

\* the well-formed event lines of the model, written out with their fields
CpuLines == [line : {"CPU,50"}, duration : {50}]
              \cup [line : {"CPU,-5"}, duration : {-5}]
DeviceLines == [line : {"SYSCALL,0"}, kind : {"SYSCALL"}, device : {0}]
                 \cup [line : {"END_IO,1"}, kind : {"END_IO"}, device : {1}]
                 \cup [line : {"SYSCALL,3"}, kind : {"SYSCALL"}, device : {3}]
                 \cup [line : {"END_IO,7"}, kind : {"END_IO"}, device : {7}]
                 \cup [line : {"END_IO,-2"}, kind : {"END_IO"}, device : {-2}]
ForkLines == {"FORK,10", "FORK,"}
ExecLines == [line : {"EXEC a,50", "EXEC a,"}, name : {"a"}]
               \cup [line : {"EXEC b,1"}, name : {"b"}]
               \cup [line : {"EXEC z,0"}, name : {"z"}]
               \cup [line : {"EXEC free,1"}, name : {"free"}]
SystemCallLines == ForkLines \cup {e.line : e \in ExecLines}
                       \cup {e.line : e \in DeviceLines}

\* the four entries of the kernel-entry sequence, starting at time t
IsEntrySequence(seq, t) ==
    /\ Len(seq) = 4
    /\ seq[1] = LogLine(t, 1, "switch to kernel mode")
    /\ seq[2] = LogLine(t + 1, 10, "context saved")
    /\ seq[3].time = t + 11 /\ seq[3].duration = 1
    /\ StartsWith(seq[3].description, "find vector ")
    /\ seq[4].time = t + 12 /\ seq[4].duration = 1
    /\ StartsWith(seq[4].description, "load address ")

\* the three entries of the exit sequence, starting at time t
IsExitSequence(seq, t) ==
    seq = <<LogLine(t, 1, "IRET"),
            LogLine(t + 1, 10, "context restored"),
            LogLine(t + 11, 1, "switch to user mode")>>

(***************************************************************************)
(* C1                                                                      *)
(***************************************************************************)
\* C1: in every run the first log entry has timestamp 0 and the timestamps
\* of the log are non-decreasing.  The code violates it: a CPU line whose
\* value is negative or unparsable (-1), or a negative delay-table entry,
\* moves the clock backward.
C1_TimestampsNonDecreasing ==
    /\ execution # <<>> => execution[1].time = 0
    /\ \A i \in 1..(Len(execution) - 1) :
           execution[i].time <= execution[i + 1].time

(***************************************************************************)
(* C2                                                                      *)
(***************************************************************************)
\* C2: every log entry carries the clock value at which it was appended and
\* the clock then advances by the entry's duration: consecutive entries
\* satisfy time(i+1) = time(i) + duration(i), the first entry is stamped 0,
\* and the clock of a run that was not terminated equals the sum of all
\* logged durations.
C2_LogChained ==
    /\ execution # <<>> => execution[1].time = 0
    /\ \A i \in 1..(Len(execution) - 1) :
           execution[i + 1].time = execution[i].time + execution[i].duration
    /\ status # "aborted" => current_time = SumDurations(execution)

\* a finished run whose log holds the entries of a successful EXEC, with its
\* zero-duration marker, and of a device interrupt with a negative delay
C2_Witness ==
    /\ status = "done"
    /\ \E i, j, k \in 1..Len(execution) :
         /\ execution[i] = LogLine(317, 0, "scheduler called")
         /\ execution[j].description = "updating PCB"
         /\ execution[k].description = "END_IO: run the ISR"
         /\ execution[k].duration < 0
    /\ current_time = SumDurations(execution)
    /\ current_time = 329 + 22

(***************************************************************************)
(* C3                                                                      *)
(***************************************************************************)
\* C3: a CPU,D event appends exactly one log entry (t, D, "CPU execution"),
\* t being the clock before the event, and leaves the clock at t + D.
C3_CpuBurst ==
    [][\A e \in CpuLines :
          (ReadsLine /\ ThisLine = e.line) =>
              /\ execution' = Append(execution,
                                     LogLine(current_time, e.duration,
                                             "CPU execution"))
              /\ current_time' = current_time + e.duration]_vars

\* a CPU,50 burst that started at a clock other than 0
C3_Witness ==
    /\ Len(trace) = 2 /\ trace[2] = "CPU,50"
    /\ Len(execution) > 1
    /\ execution[Len(execution)]
         = LogLine(current_time - 50, 50, "CPU execution")
    /\ current_time - 50 > 0

(***************************************************************************)
(* C4                                                                      *)
(***************************************************************************)
\* C4: every FORK, EXEC, SYSCALL and END_IO event whose handler returns, on
\* the success path and on every error path, logs first the four entries of
\* the entry sequence (1, 10, 1, 1) and last the three entries of the exit
\* sequence IRET (1), context restored (10), switch to user mode (1), with
\* at least one body entry in between.  (A run terminated by a fatal
\* indexing error writes no log at all.)
C4_EntryAndExitSequences ==
    [][\A ln \in SystemCallLines :
          (ReadsLine /\ ThisLine = ln /\ Completes) =>
              LET n == Len(Appended)
              IN  /\ LogExtended
                  /\ n >= 8
                  /\ IsEntrySequence(SubSeq(Appended, 1, 4), current_time)
                  /\ IsExitSequence(SubSeq(Appended, n - 2, n),
                                    Appended[n - 3].time
                                        + Appended[n - 3].duration)
                  /\ current_time' = Appended[n].time + 1]_vars

\* the no-partition error path of EXEC, taken after a CPU burst
C4_Witness ==
    /\ trace = <<"CPU,50", "EXEC b,1">>
    /\ status = "running"
    /\ Len(execution) = 9
    /\ execution[6].description = "ERROR: No partition"
    /\ IsEntrySequence(SubSeq(execution, 2, 5), 50)
    /\ IsExitSequence(SubSeq(execution, 7, 9), 64)

(***************************************************************************)
(* C5                                                                      *)
(***************************************************************************)
\* C5: a SYSCALL,n or END_IO,n event that starts at clock t, n >= 0 being an
\* index of the vector table and of the delay table, logs entries at t, t+1, t+11,
\* t+12, one ISR entry at t+13 of duration d = delays[n], IRET at t+13+d,
\* context restored at t+14+d, switch to user mode at t+24+d, and leaves the
\* clock at t+25+d; the trace [CPU,50; SYSCALL,0] with vectors [v0] and
\* delays [20] begins with (0, 50, CPU execution) and ends at clock 95.
C5_DeviceInterruptTiming ==
    [][/\ \A e \in DeviceLines :
            (/\ ReadsLine /\ ThisLine = e.line
             /\ e.device >= 0
             /\ e.device < Len(vectors) /\ e.device < Len(delays)) =>
                LET t == current_time
                    d == delays[e.device + 1]
                    a == Appended
                IN  /\ Completes
                    /\ LogExtended
                    /\ Len(a) = 8
                    /\ a[1].time = t /\ a[2].time = t + 1
                    /\ a[3].time = t + 11 /\ a[4].time = t + 12
                    /\ a[5] = LogLine(t + 13, d, e.kind \o ": run the ISR")
                    /\ a[6] = LogLine(t + 13 + d, 1, "IRET")
                    /\ a[7] = LogLine(t + 14 + d, 10, "context restored")
                    /\ a[8] = LogLine(t + 24 + d, 1, "switch to user mode")
                    /\ current_time' = t + 25 + d
       /\ (/\ trace' = <<"CPU,50", "SYSCALL,0">>
           /\ vectors = <<"v0">> /\ delays = <<20>>) =>
              /\ execution'[1] = LogLine(0, 50, "CPU execution")
              /\ Len(execution') = 9
              /\ current_time' = 95]_vars

\* the end of the trace [CPU,50; SYSCALL,0] with vectors [v0], delays [20]
C5_Witness ==
    /\ trace = <<"CPU,50", "SYSCALL,0">>
    /\ vectors = <<"v0">> /\ delays = <<20>>
    /\ execution[6] = LogLine(63, 20, "SYSCALL: run the ISR")
    /\ current_time = 95

(***************************************************************************)
(* C6                                                                      *)
(***************************************************************************)
\* size_mb of the catalog entry that an EXEC of each program name matches
MatchedSize(name) ==
    CASE name = "a" -> 20 [] name = "b" -> 50 [] name = "free" -> 8

\* this step logged a "loading <program>" entry: the EXEC succeeded
Loads == \E k \in 1..Len(Appended) :
             StartsWith(Appended[k].description, "loading ")

\* C6: first fit.  The table lists the partitions by ascending id, and a
\* successful EXEC of a program of size s marks the partition at the lowest
\* position among those that are free with capacity >= s, whether or not a
\* smaller free partition fits; with all of [40,25,15,10,8] free and s = 20
\* the 40 MB partition is the one selected, the 25 MB one stays free.
C6_FirstFit ==
    [][/\ \A i, j \in 1..Len(partition_table) :
            i < j => partition_table[i].number < partition_table[j].number
       /\ \A e \in ExecLines :
            (ReadsLine /\ ThisLine = e.line /\ Completes /\ Loads) =>
                \E i \in 1..Len(partition_table) :
                    /\ partition_table[i].code = "free"
                    /\ partition_table[i].size >= MatchedSize(e.name)
                    /\ \A j \in 1..(i - 1) :
                          ~(/\ partition_table[j].code = "free"
                            /\ partition_table[j].size >= MatchedSize(e.name))
                    /\ partition_table' =
                          [partition_table EXCEPT ![i].code = e.name]
                    /\ Appended[5].description =
                          "loading " \o e.name \o " from disk to partition "
                              \o ToString(partition_table[i].number)
       /\ (ReadsLine /\ ThisLine = "EXEC a,50" /\ Completes /\ Loads
             /\ \A i \in 1..Len(partition_table) :
                    partition_table[i].code = "free") =>
              /\ partition_table'[1].size = 40
              /\ partition_table'[1].code = "a"
              /\ partition_table'[2].size = 25
              /\ partition_table'[2].code = "free"]_vars

\* EXEC of the 20 MB program with all partitions free took the 40 MB one
C6_Witness ==
    /\ trace = <<"EXEC a,50">>
    /\ status = "running"
    /\ [i \in 1..5 |-> partition_table[i].size] = <<40, 25, 15, 10, 8>>
    /\ [i \in 1..5 |-> partition_table[i].code]
         = <<"a", "free", "free", "free", "free">>

(***************************************************************************)
(* C7                                                                      *)
(***************************************************************************)
\* C7: a successful EXEC logs exactly one loader entry, its duration is
\* 15 * size_mb of the matched catalog entry, and the entry after it is
\* stamped that much later.
C7_LoaderDuration ==
    [][\A e \in ExecLines :
          (/\ ReadsLine /\ ThisLine = e.line /\ Completes
           /\ (Loads \/ partition_table' # partition_table
                     \/ pcb_table' # pcb_table)) =>
              LET a == Appended
                  loader == {k \in 1..Len(a) :
                               StartsWith(a[k].description, "loading ")}
              IN  /\ Cardinality(loader) = 1
                  /\ \A k \in loader :
                        /\ a[k].duration = 15 * MatchedSize(e.name)
                        /\ k < Len(a)
                        /\ a[k + 1].time
                             = a[k].time + 15 * MatchedSize(e.name)]_vars

\* the 20 MB program was loaded in 300 time units starting at clock 13
C7_Witness ==
    /\ trace = <<"EXEC a,50">>
    /\ status = "running"
    /\ execution[5]
         = LogLine(13, 300, "loading a from disk to partition 0")
    /\ execution[6].time = 313

(***************************************************************************)
(* C8                                                                      *)
(***************************************************************************)
\* the record of the process that calls FORK: the interpreter's current
\* process, which in the minimal variant is always the root process
Caller == pcb_table[CHOOSE i \in 1..Len(pcb_table) :
                        pcb_table[i].pid = current_pid]

\* this step logged an error entry
LogsError == \E k \in 1..Len(Appended) :
                 StartsWith(Appended[k].description, "ERROR")

\* C8: a successful FORK appends exactly one process record; its
\* program_name, partition number, size and state equal the parent's at clone
\* time, its pid is greater than the parent's and differs from every existing
\* pid, and its parent_pid is the caller's pid.  The minimal variant violates
\* the last part: it never assigns the child's ppid.
C8_ForkClonesParent ==
    [][\A ln \in ForkLines :
          (ReadsLine /\ ThisLine = ln /\ Completes /\ ~LogsError) =>
              LET parent == Caller
                  child == pcb_table'[Len(pcb_table')]
              IN  /\ Len(pcb_table') = Len(pcb_table) + 1
                  /\ SubSeq(pcb_table', 1, Len(pcb_table)) = pcb_table
                  /\ child.program_name = parent.program_name
                  /\ child.partition_number = parent.partition_number
                  /\ child.size = parent.size
                  /\ child.state = parent.state
                  /\ child.pid > parent.pid
                  /\ \A i \in 1..Len(pcb_table) : pcb_table[i].pid # child.pid
                  /\ child.ppid = parent.pid]_vars

(***************************************************************************)
(* C9                                                                      *)
(***************************************************************************)
\* no catalog entry has this program name
NotInCatalog(name) ==
    \A i \in 1..Len(external_files) : external_files[i].program_name # name

\* the entries of a failed system call that started at clock t: the entry
\* sequence, one error entry of duration 1, the exit sequence
IsFailedCall(seq, t, message) ==
    /\ Len(seq) = 8
    /\ IsEntrySequence(SubSeq(seq, 1, 4), t)
    /\ seq[5] = LogLine(t + 13, 1, message)
    /\ IsExitSequence(SubSeq(seq, 6, 8), t + 14)

\* C9: an EXEC whose program name matches no catalog entry logs, between the
\* entry and exit sequences, exactly one error entry of duration 1, and
\* leaves the partition table, every process record and the ready queue
\* unchanged.
C9_ExecProgramNotFound ==
    [][\A e \in ExecLines :
          (ReadsLine /\ ThisLine = e.line /\ Completes
             /\ NotInCatalog(e.name)) =>
              /\ LogExtended
              /\ IsFailedCall(Appended, current_time,
                              "ERROR: Program not found")
              /\ current_time' = current_time + 26
              /\ partition_table' = partition_table
              /\ pcb_table' = pcb_table
              /\ ready_queue' = ready_queue]_vars

\* the extended variant, with a catalog that lacks program z, after EXEC z
C9_Witness ==
    /\ variant = "extended"
    /\ trace = <<"EXEC z,0">>
    /\ external_files # <<>> /\ NotInCatalog("z")
    /\ status = "running"
    /\ execution[5] = LogLine(13, 1, "ERROR: Program not found")
    /\ Len(execution) = 8
    /\ partition_table = init_partition_table
    /\ pcb_table = <<init_process>>

(***************************************************************************)
(* C10                                                                     *)
(***************************************************************************)
\* no free partition has capacity >= size
NoPartitionFits(size) ==
    \A i \in 1..Len(partition_table) :
        ~(partition_table[i].code = "free" /\ partition_table[i].size >= size)

\* C10: an EXEC whose program is in the catalog while no free partition has
\* capacity >= the program size logs exactly one error entry of duration 1
\* between the entry and exit sequences and leaves the partition table and
\* every process record unchanged.
C10_ExecNoPartition ==
    [][\A e \in ExecLines :
          (ReadsLine /\ ThisLine = e.line /\ Completes
             /\ ~NotInCatalog(e.name)
             /\ NoPartitionFits(MatchedSize(e.name))) =>
              /\ LogExtended
              /\ Len(Appended) = 8
              /\ IsEntrySequence(SubSeq(Appended, 1, 4), current_time)
              /\ Appended[5].time = current_time + 13
              /\ Appended[5].duration = 1
              /\ StartsWith(Appended[5].description, "ERROR: No partition")
              /\ IsExitSequence(SubSeq(Appended, 6, 8), current_time + 14)
              /\ current_time' = current_time + 26
              /\ partition_table' = partition_table
              /\ pcb_table' = pcb_table]_vars

\* the third EXEC of the 20 MB program: the 40 MB and 25 MB partitions are
\* taken and the free ones are too small
C10_Witness ==
    /\ trace = <<"EXEC a,50", "EXEC a,50", "EXEC a,50">>
    /\ status = "running"
    /\ partition_table[1].code = "a" /\ partition_table[2].code = "a"
    /\ \A i \in 3..5 : partition_table[i].code = "free"
                         /\ partition_table[i].size < 20
    /\ Len(execution) = 11 + 11 + 8
    /\ execution[27].description = "ERROR: No partition"
    /\ pcb_table[1].partition_number = 1

(***************************************************************************)
(* C11                                                                     *)
(***************************************************************************)
\* the last event logged was a failed system call: the log ends with an
\* error entry followed by the exit sequence
LastEventFailed ==
    LET n == Len(execution)
    IN  /\ n >= 8
        /\ StartsWith(execution[n - 3].description, "ERROR")
        /\ IsExitSequence(SubSeq(execution, n - 2, n), execution[n - 3].time + 1)

\* the clock value at which the last logged entry ended
EndOfLog == execution[Len(execution)].time + execution[Len(execution)].duration

\* C11: a recoverable error never aborts the run.  An EXEC that reaches its
\* handler body (vector 3 exists) and fails, because the program is not in
\* the catalog or no partition fits, logs its error and returns with the run
\* still going and the clock at the end of its exit sequence; the event read
\* after a failed call is dispatched and logged like any other, stamped from
\* that clock.  (The same holds of a FORK whose caller is not found; that
\* branch is never taken, the caller pid 0 being always in the table.)
C11_ErrorsDoNotAbort ==
    [][/\ \A e \in ExecLines :
            (/\ ReadsLine /\ ThisLine = e.line /\ Len(vectors) > 3
             /\ (NotInCatalog(e.name)
                   \/ NoPartitionFits(MatchedSize(e.name)))) =>
                /\ status' = "running"
                /\ LogExtended /\ LogsError
                /\ IsExitSequence(SubSeq(Appended, 6, 8), current_time + 14)
                /\ current_time' = current_time + 26
       /\ \A ln \in ForkLines :
            (ReadsLine /\ ThisLine = ln /\ Len(vectors) > 2) =>
                status' = "running"
       /\ (ReadsLine /\ LastEventFailed) =>
            /\ current_time = EndOfLog
            /\ \A e \in CpuLines : ThisLine = e.line =>
                  execution' = Append(execution,
                                      LogLine(EndOfLog, e.duration,
                                              "CPU execution"))
            /\ \A ln \in ForkLines \cup {e.line : e \in ExecLines} :
                  (ThisLine = ln /\ Len(vectors) > 3) =>
                      /\ status' = "running"
                      /\ LogExtended /\ Len(Appended) >= 8
                      /\ Appended[1]
                           = LogLine(EndOfLog, 1, "switch to kernel mode")
                      /\ current_time' = Appended[Len(Appended)].time + 1
            /\ \A e \in DeviceLines :
                  (/\ ThisLine = e.line /\ e.device >= 0
                   /\ e.device < Len(vectors) /\ e.device < Len(delays)) =>
                      /\ status' = "running"
                      /\ LogExtended /\ Len(Appended) = 8
                      /\ Appended[1]
                           = LogLine(EndOfLog, 1, "switch to kernel mode")]_vars

\* a FORK dispatched after an EXEC that found no partition: it starts at
\* clock 26 and creates its child
C11_Witness ==
    /\ variant = "extended"
    /\ trace = <<"EXEC b,1", "FORK,10">>
    /\ status = "running"
    /\ execution[5].description = "ERROR: No partition"
    /\ Len(execution) = 8 + 9
    /\ execution[9] = LogLine(26, 1, "switch to kernel mode")
    /\ Len(pcb_table) = 2
    /\ current_time = 52

(***************************************************************************)
(* C12                                                                     *)
(***************************************************************************)
\* the partition table built by initialize_system of the variant that runs
InitialPartitions ==
    IF variant = "extended" THEN init_partition_table
    ELSE min_init_partition_table

\* the positions of the log entries that record the loading of a program
\* into the partition of the given number
LoadsInto(number) ==
    {k \in 1..Len(execution) :
        \E e \in ExecLines :
            execution[k].description =
                "loading " \o e.name \o " from disk to partition "
                    \o ToString(number)}

\* C12: the number of partitions and every capacity keep their initial
\* values, and an occupant only ever changes from Free to a program: a
\* partition that an EXEC has marked occupied keeps that occupant, so no
\* partition is loaded a second time.  The code violates it for a catalog
\* program whose name is the text "free": marking the partition with that
\* name leaves it available, and the next EXEC loads into it again.
C12_PartitionsFixed ==
    /\ Len(partition_table) = Len(InitialPartitions)
    /\ \A i \in 1..Len(partition_table) :
          /\ partition_table[i].number = InitialPartitions[i].number
          /\ partition_table[i].size = InitialPartitions[i].size
          /\ LoadsInto(partition_table[i].number) = {}
                => partition_table[i].code = InitialPartitions[i].code
          /\ Cardinality(LoadsInto(partition_table[i].number)) <= 1
          /\ \A k \in LoadsInto(partition_table[i].number) :
                execution[k].description =
                    "loading " \o partition_table[i].code
                        \o " from disk to partition "
                        \o ToString(partition_table[i].number)

(***************************************************************************)
(* C13                                                                     *)
(***************************************************************************)
\* the positions of the log entries that record the cloning of a PCB: one
\* per successful FORK
CloneEntries(log) ==
    {k \in 1..Len(log) :
        log[k].description \in {"cloning the PCB",
                                "PCB cloned for child process"}}

PidsDistinct(table) ==
    \A i, j \in 1..Len(table) : i # j => table[i].pid # table[j].pid

\* C13: the pids of the process table are pairwise distinct, no event changes
\* the pid of an existing record, and pids are handed out in increasing
\* order of creation: the record created by the k-th successful FORK has
\* pid k.
C13_PidsUniqueImmutableIncreasing ==
    [][/\ PidsDistinct(pcb_table) /\ PidsDistinct(pcb_table')
       /\ Len(pcb_table') >= Len(pcb_table)
       /\ \A i \in 1..Len(pcb_table) : pcb_table'[i].pid = pcb_table[i].pid
       /\ \A i \in 1..(Len(pcb_table') - 1) :
              pcb_table'[i].pid < pcb_table'[i + 1].pid
       /\ Cardinality(CloneEntries(execution'))
              > Cardinality(CloneEntries(execution)) =>
              /\ Len(pcb_table') = Len(pcb_table) + 1
              /\ pcb_table'[Len(pcb_table')].pid
                    = Cardinality(CloneEntries(execution'))]_vars

\* three FORKs with an EXEC in between created pids 1, 2 and 3
C13_Witness ==
    /\ trace = <<"FORK,10", "EXEC a,50", "FORK,10", "FORK,10">>
    /\ status = "running"
    /\ Cardinality(CloneEntries(execution)) = 3
    /\ [i \in 1..Len(pcb_table) |-> pcb_table[i].pid] = <<0, 1, 2, 3>>

(***************************************************************************)
(* C14                                                                     *)
(***************************************************************************)
\* C14: exactly one process record has no parent (ppid = -1), the root
\* record of pid 0, and every record created by FORK has as ppid the pid of
\* a record of the process table.  The minimal variant violates it: its root
\* record's ppid is never initialised and its FORK copies that value into
\* every child.
C14_OneRootParentsPresent ==
    /\ {i \in 1..Len(pcb_table) : pcb_table[i].ppid = -1} = {1}
    /\ pcb_table[1].pid = 0
    /\ \A i \in 2..Len(pcb_table) :
          \E j \in 1..Len(pcb_table) : pcb_table[j].pid = pcb_table[i].ppid

(***************************************************************************)
(* C15                                                                     *)
(***************************************************************************)
\* C15: no process record is ever removed.  A FORK that reaches its handler
\* body (vector 2 exists) appends exactly one record, every other step
\* leaves the length of the process table unchanged, the records already
\* present keep their positions, and the length is always 1 + the number of
\* successful FORKs logged.
C15_TableOnlyGrowsByFork ==
    [][/\ Len(pcb_table) = 1 + Cardinality(CloneEntries(execution))
       /\ Len(pcb_table') = 1 + Cardinality(CloneEntries(execution'))
       /\ \A i \in 1..Len(pcb_table) :
              /\ i <= Len(pcb_table')
              /\ pcb_table'[i].pid = pcb_table[i].pid
       /\ IF ReadsLine /\ ThisLine \in ForkLines /\ Len(vectors) > 2
          THEN /\ Len(pcb_table') = Len(pcb_table) + 1
               /\ Cardinality(CloneEntries(Appended)) = 1
          ELSE /\ Len(pcb_table') = Len(pcb_table)
               /\ ReadsLine => CloneEntries(Appended) = {}]_vars

\* the minimal variant after two FORKs, a failed EXEC and the end of the
\* trace: three records
C15_Witness ==
    /\ variant = "minimal"
    /\ trace = <<"FORK,10", "EXEC a,50", "FORK,10">>
    /\ status = "done"
    /\ Len(pcb_table) = 3
    /\ Cardinality(CloneEntries(execution)) = 2

(***************************************************************************)
(* C16                                                                     *)
(***************************************************************************)
\* the results that handling a device line can have in the current state
InterruptOutcomes(e) ==
    {handle_interrupt(e.device, current_time, vectors, delays, e.kind, oob) :
        oob \in OutOfBoundsReads}

\* the process tables that initialize_system of the variant can build
InitialProcessTables ==
    IF variant = "extended" THEN {<<init_process>>}
    ELSE {<<min_init_process(any.ppid, any.priority)>> : any \in Indeterminate}

\* C16: the simulation is deterministic: the trace, the vector table, the
\* delay table and the catalog determine the log, the clock and the final
\* tables.  Stated step by step: the inputs determine the initial tables,
\* and the result a step produces is the only result its event can have in
\* that state.  The code violates it: a device number past the end of the
\* delay table is read unchecked (C18), and the minimal variant leaves ppid
\* and priority of the root record uninitialised (C8, C14).
C16_Deterministic ==
    [][/\ Cardinality(InitialProcessTables) = 1
       /\ \A e \in DeviceLines :
            (ReadsLine /\ ThisLine = e.line) =>
                \A r \in InterruptOutcomes(e) :
                    /\ r.threw <=> status' = "aborted"
                    /\ execution' = execution \o r.result
                    /\ current_time' = r.current_time]_vars

(***************************************************************************)
(* C17                                                                     *)
(***************************************************************************)
\* the interrupt number of each system-call line: n for SYSCALL,n and
\* END_IO,n, 2 for FORK, 3 for EXEC
InterruptNumbers ==
    {[line |-> e.line, number |-> e.device] : e \in DeviceLines}
        \cup {[line |-> ln, number |-> 2] : ln \in ForkLines}
        \cup {[line |-> e.line, number |-> 3] : e \in ExecLines}

\* C17: an event whose interrupt number is negative or not smaller than the
\* number of vector-table entries aborts the run: that event mutates no
\* partition and no process record, no later event is processed and no
\* output is written.
C17_VectorOutOfRangeAborts ==
    [][/\ \A e \in InterruptNumbers :
            (/\ ReadsLine /\ ThisLine = e.line
             /\ (e.number < 0 \/ e.number >= Len(vectors))) =>
                /\ status' = "aborted"
                /\ partition_table' = partition_table
                /\ pcb_table' = pcb_table
       /\ status # "aborted"
       /\ status' = "aborted" => output' = <<>>]_vars

\* a successful FORK followed by an END_IO with a negative device number:
\* the run was terminated and only the FORK is in the tables
C17_Witness ==
    /\ trace = <<"FORK,10", "END_IO,-2">>
    /\ Len(vectors) = 4
    /\ status = "aborted"
    /\ Len(pcb_table) = 2
    /\ Len(execution) = 9
    /\ output = <<>>

(***************************************************************************)
(* C18                                                                     *)
(***************************************************************************)
\* C18: a SYSCALL,n or END_IO,n event whose device number n is an index of
\* the vector table but lies outside the delay table is a fatal indexing
\* error: the run aborts, no ISR entry is logged and no later event is
\* processed.  The code violates it: execute_isr reads delays[n] unchecked,
\* and the run may go on with whatever value the read yields.
C18_DelayOutOfRangeAborts ==
    [][\A e \in DeviceLines :
          (/\ ReadsLine /\ ThisLine = e.line
           /\ e.device >= 0 /\ e.device < Len(vectors)
           /\ e.device >= Len(delays)) =>
              /\ status' = "aborted"
              /\ \A k \in 1..Len(Appended) :
                    Appended[k].description # e.kind \o ": run the ISR"]_vars

(***************************************************************************)
(* C19                                                                     *)
(***************************************************************************)
\* lines that are no well-formed event: no comma, an unknown activity, and
\* activities that merely start with the letters EXEC
MalformedLines == {"FORK", "NOP,1", "EXEC,5", "EXECX,1"}

\* this step had no effect but the reading of its line
Ignored ==
    /\ status' = status
    /\ execution' = execution
    /\ current_time' = current_time
    /\ partition_table' = partition_table
    /\ pcb_table' = pcb_table
    /\ ready_queue' = ready_queue

\* C19: a trace line that is not a well-formed CPU, FORK, EXEC <name>,
\* SYSCALL, END_IO or conditional-marker event is silently ignored: no log
\* entry is appended and the clock and the tables are unchanged.  The code
\* violates it for activities that start with EXEC: "EXEC,5" makes
\* activity.substr(5) throw, which ends the run, and "EXECX,1" runs
\* handle_exec with an empty program name.
C19_MalformedLinesIgnored ==
    [][\A ln \in MalformedLines : (ReadsLine /\ ThisLine = ln) => Ignored]_vars

(***************************************************************************)
(* C20                                                                     *)
(***************************************************************************)
\* this step ran the FORK handler: a child was created, or the run ended on
\* a vector table without entry 2
ForkDispatched ==
    IF Len(vectors) > 2
    THEN /\ status' = "running"
         /\ Len(Appended) >= 8
         /\ IsEntrySequence(SubSeq(Appended, 1, 4), current_time)
         /\ Cardinality(CloneEntries(Appended)) = 1
         /\ Len(pcb_table') = Len(pcb_table) + 1
    ELSE status' = "aborted"

\* this step ran the EXEC handler for the program name: the program was
\* loaded or an error logged, or the run ended on a vector table without
\* entry 3
ExecDispatched(name) ==
    IF Len(vectors) > 3
    THEN /\ status' = "running"
         /\ Len(Appended) >= 8
         /\ IsEntrySequence(SubSeq(Appended, 1, 4), current_time)
         /\ \/ LogsError
            \/ StartsWith(Appended[5].description,
                          "loading " \o name \o " from disk to partition ")
    ELSE status' = "aborted"

\* C20 as claimed: a line that consists of the activity alone, with no comma
\* and no value, is dispatched to its handler like the same activity with a
\* value.  The code does not: parse_trace turns every line without a comma
\* into the null event, which is ignored.
C20_ValueOptional ==
    [][/\ (ReadsLine /\ ThisLine = "FORK") => ForkDispatched
       /\ (ReadsLine /\ ThisLine = "EXEC a") => ExecDispatched("a")]_vars

\* C20 amended: the digits of VALUE are optional, the comma is not.  A line
\* "ACTIVITY," is dispatched to its handler like the same activity with a
\* value, the value defaulting to -1 (a "CPU," burst has duration -1); a
\* line with no comma is a null event and is ignored.
C20_ValueDigitsOptional ==
    [][/\ (ReadsLine /\ ThisLine = "FORK,") => ForkDispatched
       /\ (ReadsLine /\ ThisLine = "EXEC a,") => ExecDispatched("a")
       /\ (ReadsLine /\ ThisLine = "CPU,") =>
              execution' = Append(execution,
                                  LogLine(current_time, -1, "CPU execution"))
       /\ (ReadsLine /\ ThisLine \in {"FORK", "EXEC a"}) => Ignored]_vars

\* "FORK," created a child and "CPU," ran a burst of the default value -1
C20_Witness ==
    /\ trace = <<"FORK,", "CPU,">>
    /\ status = "running"
    /\ Len(pcb_table) = 2
    /\ Len(execution) >= 9
    /\ execution[Len(execution)]
         = LogLine(current_time + 1, -1, "CPU execution")

(***************************************************************************)
(* C21                                                                     *)
(***************************************************************************)
MarkerLines == {"IF_CHILD,0", "IF_PARENT,0", "ENDIF,0"}

\* C21: the conditional-block markers IF_CHILD, IF_PARENT and ENDIF cost no
\* time and do not appear in the log: a step that reads one leaves the
\* clock, the log, the partition table, the process table and the ready
\* queue unchanged, and the run goes on.
C21_MarkersLeaveNoTrace ==
    [][\A ln \in MarkerLines :
          (ReadsLine /\ ThisLine = ln) =>
              /\ Ignored
              /\ status' = "running"
              /\ parent_child_map' = parent_child_map
              /\ next_pid' = next_pid]_vars

\* IF_CHILD read after a successful FORK in the extended variant: the child
\* block is open and the clock and log are those the FORK left
C21_Witness ==
    /\ variant = "extended"
    /\ trace = <<"FORK,10", "IF_CHILD,0">>
    /\ in_child_block /\ ~in_parent_block /\ block_pid = 0
    /\ Len(execution) = 9
    /\ current_time = 26
    /\ ready_queue = <<0, 1>>

(***************************************************************************)
(* C22                                                                     *)
(***************************************************************************)
\* the position of a pid in the ready queue, 0 if it is not queued
QueuePosition(queue, pid) ==
    FirstIndex({k \in 1..Len(queue) : queue[k] = pid})

\* C22: child runs first.  After a successful FORK of the extended variant
\* the child is queued before its parent, so that get_next_process returns
\* the child's pid before the parent's.  The code violates it: the ready
\* queue is a plain FIFO that holds the root since initialisation, and the
\* child is pushed at its back.
C22_ChildRunsFirst ==
    [][\A ln \in ForkLines :
          (/\ ReadsLine /\ ThisLine = ln /\ Completes /\ ~LogsError
           /\ variant = "extended") =>
              LET child == pcb_table'[Len(pcb_table')]
                  child_at == QueuePosition(ready_queue', child.pid)
                  parent_at == QueuePosition(ready_queue', child.ppid)
              IN  /\ child_at # 0
                  /\ parent_at # 0 => child_at < parent_at
                  /\ get_next_process(ready_queue').next # child.ppid]_vars

(***************************************************************************)
(* C23                                                                     *)
(***************************************************************************)
\* C23: FORK never frees or reassigns memory: a FORK event, whether it
\* succeeds or ends the run, leaves the partition table unchanged and every
\* process record that existed before it, the parent's partition number
\* included, unchanged.
C23_ForkKeepsMemory ==
    [][\A ln \in ForkLines :
          (ReadsLine /\ ThisLine = ln) =>
              /\ partition_table' = partition_table
              /\ Len(pcb_table') >= Len(pcb_table)
              /\ SubSeq(pcb_table', 1, Len(pcb_table)) = pcb_table]_vars

\* a FORK by a process that an EXEC had moved into partition 0: parent and
\* child are both recorded in partition 0, which still holds program a
C23_Witness ==
    /\ variant = "extended"
    /\ trace = <<"EXEC a,50", "FORK,10">>
    /\ status = "running"
    /\ partition_table[1].code = "a"
    /\ Len(pcb_table) = 2
    /\ pcb_table[1].partition_number = 0 /\ pcb_table[1].program_name = "a"
    /\ pcb_table[2].partition_number = 0 /\ pcb_table[2].pid = 1

(***************************************************************************)
(* C24                                                                     *)
(***************************************************************************)
\* the kind of event a body entry (the entry after the entry sequence)
\* belongs to
BodyKind(description) ==
    IF description \in {"cloning the PCB", "PCB cloned for child process",
                        "ERROR: Parent not found"} THEN "FORK"
    ELSE IF StartsWith(description, "loading ")
            \/ StartsWith(description, "ERROR: Program not found")
            \/ StartsWith(description, "ERROR: No partition") THEN "EXEC"
    ELSE IF description = "SYSCALL: run the ISR" THEN "SYSCALL"
    ELSE IF description = "END_IO: run the ISR" THEN "END_IO"
    ELSE "?"

\* the positions of the log entries that start an event: a CPU entry is an
\* event of its own, any other event starts with "switch to kernel mode"
EventStarts(log) ==
    {k \in 1..Len(log) :
        log[k].description \in {"CPU execution", "switch to kernel mode"}}

\* the position of the last entry of the event that starts at position k:
\* the entry before the next start, or the end of the log
EventEnd(log, k) ==
    LET later == {j \in EventStarts(log) : j > k}
    IN  IF later = {} THEN Len(log) ELSE FirstIndex(later) - 1

\* the entries of two events are not interleaved: the log starts with an
\* event, a CPU event is one entry, and any other event is an entry
\* sequence, a body and an exit sequence that ends the event
EventsWhole(log) ==
    /\ log # <<>> => 1 \in EventStarts(log)
    /\ \A k \in EventStarts(log) :
          LET last == EventEnd(log, k)
          IN  IF log[k].description = "CPU execution" THEN last = k
              ELSE /\ last >= k + 7
                   /\ IsEntrySequence(SubSeq(log, k, k + 3), log[k].time)
                   /\ IsExitSequence(SubSeq(log, last - 2, last),
                                     log[last - 2].time)
                   /\ \A j \in (k + 4)..(last - 3) :
                         log[j].description
                             \notin {"IRET", "context restored",
                                      "switch to user mode"}

\* the kinds of the events of the log, in log order
LogEvents(log) ==
    [r \in 1..Cardinality(EventStarts(log)) |->
        LET k == CHOOSE k \in EventStarts(log) :
                     Cardinality({j \in EventStarts(log) : j <= k}) = r
        IN  IF log[k].description = "CPU execution" THEN "CPU"
            ELSE IF k + 4 > Len(log) THEN "?"
            ELSE BodyKind(log[k + 4].description)]

\* the kind of event each trace line is dispatched as, "" for a line that
\* logs nothing ("EXECX,1" reaches the EXEC handler, see C19)
LineKind(line) ==
    IF \E e \in CpuLines : e.line = line THEN "CPU"
    ELSE IF line = "CPU," THEN "CPU"
    ELSE IF line \in ForkLines THEN "FORK"
    ELSE IF line = "EXECX,1" \/ \E e \in ExecLines : e.line = line THEN "EXEC"
    ELSE IF \E e \in DeviceLines : e.line = line
    THEN (CHOOSE e \in DeviceLines : e.line = line).kind
    ELSE ""

\* the kinds of the lines of a trace that log something, in trace order
LogsSomething(kind) == kind # ""
TraceEvents(lines) ==
    SelectSeq([i \in 1..Len(lines) |-> LineKind(lines[i])], LogsSomething)

\* the lines whose handler ran to completion: all of the trace, but its last
\* line when that one ended the run
CompletedLines ==
    IF status = "aborted" THEN SubSeq(trace, 1, Len(trace) - 1) ELSE trace

\* C24: events are processed strictly in trace order and each handler runs
\* to completion before the next event is dispatched: the log is the
\* concatenation, in trace order, of the entries of each event, no entries
\* of two events are interleaved, and every step only appends to the log,
\* whatever the ready queue holds.
C24_LogInTraceOrder ==
    [][/\ LogExtended
       /\ ReadsLine => trace' = Append(trace, ThisLine)
       /\ EventsWhole(execution) /\ EventsWhole(execution')
       /\ LogEvents(execution) = TraceEvents(CompletedLines)
       /\ (LogEvents(execution))' = (TraceEvents(CompletedLines))']_vars

\* two FORKs around a successful and a failed EXEC, logged in that order
\* while the ready queue holds three pids
C24_Witness ==
    /\ variant = "extended"
    /\ trace = <<"FORK,10", "EXEC a,50", "EXEC z,0", "FORK,10">>
    /\ status = "running"
    /\ ready_queue = <<0, 1, 2>>
    /\ LogEvents(execution) = <<"FORK", "EXEC", "EXEC", "FORK">>
    /\ Len(execution) = 9 + 11 + 8 + 9

(***************************************************************************)
(* C25                                                                     *)
(***************************************************************************)
\* the body entries of this step: what lies between the four entries of the
\* entry sequence and the three of the exit sequence
Body == SubSeq(Appended, 5, Len(Appended) - 3)

\* the record of the calling process after this step
CallerAfter == pcb_table'[CHOOSE i \in 1..Len(pcb_table') :
                             pcb_table'[i].pid = current_pid]

\* after this step some partition holds the program and the caller's record
\* names the program, that partition and the size
ProgramInstalled(name) ==
    \E i \in 1..Len(partition_table') :
        /\ partition_table[i].code = "free"
        /\ partition_table'[i].code = name
        /\ CallerAfter.program_name = name
        /\ CallerAfter.partition_number = partition_table'[i].number
        /\ CallerAfter.size = MatchedSize(name)

C26_ForkBody ==
    [][\A ln \in ForkLines :
          (ReadsLine /\ ThisLine = ln /\ Completes /\ ~LogsError) =>
              LET t == current_time
              IN  /\ Len(Appended) = 9
                  /\ Len(Body) = 2
                  /\ Body[1].time = t + 13 /\ Body[1].duration = 1
                  /\ CloneEntries(Body) = {1}
                  /\ Body[2] = LogLine(t + 14, 0, "scheduler called")
                  /\ Appended[7] = LogLine(t + 14, 1, "IRET")
                  /\ current_time' = t + 26]_vars

(***************************************************************************)
(* C27                                                                     *)
(***************************************************************************)
\* C27: a successful EXEC by process p overwrites exactly p's program_name,
\* partition number and size with the program name, the number of the
\* selected partition and the catalog size; p's pid, ppid, state and
\* priority, every other process record, the ready queue and every
\* partition but the selected one are unchanged.
C27_ExecOverwritesCallerOnly ==
    [][\A e \in ExecLines :
          (ReadsLine /\ ThisLine = e.line /\ Completes /\ Loads) =>
              \E i \in 1..Len(partition_table) :
              \E p \in 1..Len(pcb_table) :
                  /\ pcb_table[p].pid = current_pid
                  /\ partition_table[i].code = "free"
                  /\ partition_table' =
                        [partition_table EXCEPT ![i].code = e.name]
                  /\ pcb_table' =
                        [pcb_table EXCEPT
                            ![p].program_name = e.name,
                            ![p].partition_number = partition_table[i].number,
                            ![p].size = MatchedSize(e.name)]
                  /\ \A q \in 1..Len(pcb_table) :
                        q # p => pcb_table'[q] = pcb_table[q]
                  /\ ready_queue' = ready_queue
                  /\ parent_child_map' = parent_child_map
                  /\ next_pid' = next_pid]_vars

\* EXEC of program a by the root after a FORK: the root's record names a,
\* partition 0 and 20 MB, the child's record is still the copy of init
C27_Witness ==
    /\ variant = "extended"
    /\ trace = <<"FORK,10", "EXEC a,50">>
    /\ status = "running"
    /\ pcb_table[1] = [init_process EXCEPT !.program_name = "a",
                                           !.partition_number = 0,
                                           !.size = 20]
    /\ pcb_table[2] = [init_process EXCEPT !.pid = 1, !.ppid = 0,
                                           !.priority = 1]
    /\ ready_queue = <<0, 1>>
    /\ partition_table = [init_partition_table EXCEPT ![1].code = "a"]

(***************************************************************************)
(* C28                                                                     *)
(***************************************************************************)
\* the catalog positions whose entry has exactly this program name
CatalogMatches(name) ==
    {k \in 1..Len(external_files) : external_files[k].program_name = name}

\* the size of the earliest catalog entry of this name
FirstMatchSize(name) ==
    external_files[CHOOSE k \in CatalogMatches(name) :
                      \A j \in CatalogMatches(name) : k <= j].size

\* C28: EXEC resolves the program name by exact match in catalog order and
\* uses the first matching entry: with several entries of one name the
\* size of the earliest decides the partition search, the loader duration
\* and the size recorded; a name with no exact match is not found.
C28_FirstCatalogMatch ==
    [][\A e \in ExecLines :
          (ReadsLine /\ ThisLine = e.line /\ Completes) =>
              IF CatalogMatches(e.name) = {}
              THEN Body = <<LogLine(current_time + 13, 1,
                                    "ERROR: Program not found")>>
              ELSE LET size == FirstMatchSize(e.name)
                   IN  IF NoPartitionFits(size)
                       THEN /\ ~Loads
                            /\ StartsWith(Body[1].description,
                                          "ERROR: No partition")
                       ELSE /\ Loads
                            /\ Body[1].duration = 15 * size
                            /\ CallerAfter.size = size
                            /\ \E i \in 1..Len(partition_table) :
                                  /\ partition_table[i].number
                                        = CallerAfter.partition_number
                                  /\ partition_table[i].size >= size]_vars

\* the catalog lists program a twice, 20 MB first and 5 MB later; the
\* second EXEC of a was loaded as 20 MB into the 25 MB partition
C28_Witness ==
    /\ Cardinality(CatalogMatches("a")) = 2
    /\ external_files[1] = [program_name |-> "a", size |-> 20]
    /\ external_files[3] = [program_name |-> "a", size |-> 5]
    /\ trace = <<"EXEC a,50", "EXEC a,">>
    /\ status = "running"
    /\ execution[16].duration = 300
    /\ pcb_table[1].size = 20
    /\ pcb_table[1].partition_number = 1

(***************************************************************************)
(* C29                                                                     *)
(***************************************************************************)
\* no record of the process table has the caller's pid
CallerAbsent == \A i \in 1..Len(pcb_table) : pcb_table[i].pid # current_pid

\* C29: a FORK whose caller pid is not in the process table logs, after the
\* entry sequence, one error entry of duration 1 and then the exit
\* sequence; it creates no process record, leaves next_pid unchanged and
\* enqueues nothing.
C29_ForkCallerNotFound ==
    [][\A ln \in ForkLines :
          (ReadsLine /\ ThisLine = ln /\ Completes /\ CallerAbsent) =>
              /\ LogExtended
              /\ IsFailedCall(Appended, current_time,
                              "ERROR: Parent not found")
              /\ current_time' = current_time + 26
              /\ pcb_table' = pcb_table
              /\ next_pid' = next_pid
              /\ ready_queue' = ready_queue
              /\ parent_child_map' = parent_child_map
              /\ partition_table' = partition_table]_vars

\* a FORK called for pid 3 after an EXEC, with only the root in the table
C29_Witness ==
    /\ current_pid = 3
    /\ trace = <<"EXEC a,50", "FORK,10">>
    /\ status = "running"
    /\ execution[16] = LogLine(342, 1, "ERROR: Parent not found")
    /\ Len(execution) = 11 + 8
    /\ Len(pcb_table) = 1
    /\ next_pid = 1
    /\ ready_queue = <<0>>

(***************************************************************************)
(* C30                                                                     *)
(***************************************************************************)
\* interrupt number n as the log prints it, and the memory position
\* ADDR_BASE + n * VECTOR_SIZE = 2n as a fixed-width hexadecimal string
PrintedVector(n) ==
    CASE n = 0 -> [number |-> "0", position |-> "0x0000"]
      [] n = 1 -> [number |-> "1", position |-> "0x0002"]
      [] n = 2 -> [number |-> "2", position |-> "0x0004"]
      [] n = 3 -> [number |-> "3", position |-> "0x0006"]

\* C30: in the entry sequence for interrupt number n the third entry reports
\* the memory position ADDR_BASE + n * VECTOR_SIZE = 2n and the fourth the
\* vector-table entry at index n; FORK uses n = 2 (position 0x0004), EXEC
\* n = 3 (position 0x0006), SYSCALL,n and END_IO,n the device number n.
C30_VectorAddress ==
    [][\A e \in InterruptNumbers :
          (ReadsLine /\ ThisLine = e.line /\ Completes) =>
              /\ e.number >= 0 /\ e.number < Len(vectors)
              /\ Appended[3].description =
                    "find vector " \o PrintedVector(e.number).number
                        \o " in memory position "
                        \o PrintedVector(e.number).position
              /\ Appended[4].description =
                    "load address " \o vectors[e.number + 1]
                        \o " into the PC"]_vars

\* a FORK and an END_IO,1 on the 4-entry vector table: vector 2 at 0x0004
\* holds 0X0695, vector 1 at 0x0002 holds 0X029C
C30_Witness ==
    /\ trace = <<"FORK,10", "END_IO,1">>
    /\ status = "running"
    /\ execution[3].description = "find vector 2 in memory position 0x0004"
    /\ execution[4].description = "load address 0X0695 into the PC"
    /\ execution[12].description = "find vector 1 in memory position 0x0002"
    /\ execution[13].description = "load address 0X029C into the PC"

(***************************************************************************)
(* C31                                                                     *)
(***************************************************************************)
\* the lines dispatched to simulate_cpu or to handle_interrupt
ClockOnlyLines == {"CPU,50", "CPU,-5", "CPU,"} \cup {e.line : e \in DeviceLines}

\* C31: CPU, SYSCALL and END_IO events mutate nothing but the clock and the
\* log: the partition table, the process table, the ready queue, the vector
\* table, the delay table and the catalog are identical before and after
\* each such event.
C31_DeviceTrafficKeepsTables ==
    [][\A line \in ClockOnlyLines :
          (ReadsLine /\ ThisLine = line) =>
              /\ partition_table' = partition_table
              /\ pcb_table' = pcb_table
              /\ ready_queue' = ready_queue
              /\ vectors' = vectors
              /\ delays' = delays
              /\ external_files' = external_files]_vars

\* a SYSCALL after a FORK: the log holds both events, the tables are as the
\* FORK left them
C31_Witness ==
    /\ trace = <<"FORK,10", "SYSCALL,0">>
    /\ variant = "extended"
    /\ status = "running"
    /\ Len(execution) = 17
    /\ Len(pcb_table) = 2
    /\ ready_queue = <<0, 1>>

(***************************************************************************)
(* C32                                                                     *)
(***************************************************************************)
\* this step is a call of get_next_process
TakesNext == trace' = trace /\ status' = status

\* the pid enqueued earliest among those in the queue: records enter the
\* process table in the order in which their pids are enqueued
Earliest(queue) ==
    LET Queued(i) == \E k \in 1..Len(queue) : queue[k] = pcb_table[i].pid
        i == FirstIndex({k \in 1..Len(pcb_table) : Queued(k)})
    IN  pcb_table[i].pid

Running(table) == {i \in 1..Len(table) : table[i].state = "running"}

\* C34: no event ever changes the state field of a process record: in every
\* reachable state every record, the root and every forked child alike, has
\* state "running", so after the first successful FORK more than one process
\* is in state running.
C34_EveryProcessRunning ==
    [][/\ \A i \in 1..Len(pcb_table) :
              /\ i <= Len(pcb_table')
              /\ pcb_table'[i].state = pcb_table[i].state
       /\ Running(pcb_table) = 1..Len(pcb_table)
       /\ Running(pcb_table') = 1..Len(pcb_table')
       /\ CloneEntries(execution') # {}
             => Cardinality(Running(pcb_table')) > 1]_vars

\* two FORKs and an EXEC later three records are in state running
C34_Witness ==
    /\ variant = "extended"
    /\ trace = <<"FORK,10", "EXEC b,1", "FORK,10">>
    /\ status = "running"
    /\ Cardinality(CloneEntries(execution)) = 2
    /\ Running(pcb_table) = {1, 2, 3}

(***************************************************************************)
(* C35                                                                     *)
(***************************************************************************)
\* the partitions that are not free, and the successful EXECs of the log
Occupied == {i \in 1..Len(partition_table) : partition_table[i].code # "free"}
SuccessfulExecs ==
    {k \in 1..Len(execution) : StartsWith(execution[k].description, "loading ")}

\* C35: a later EXEC by a process does not release the partition it obtained
\* from an earlier EXEC: in every reachable state of the extended variant the
\* number of non-free partitions equals the number of successful EXECs so
\* far, so at most 5 EXECs can succeed in one run.  The code violates it: an
\* EXEC of the catalog program named "free" succeeds and leaves its partition
\* free (C12).
C35_PartitionsNeverReleased ==
    variant = "extended" =>
        /\ Cardinality(Occupied) = Cardinality(SuccessfulExecs)
        /\ Cardinality(SuccessfulExecs) <= Len(init_partition_table)

(***************************************************************************)
(* C36                                                                     *)
(***************************************************************************)
\* the partition number initialize_system gives the root: no partition of the
\* table has it
RootPartition == 5

\* C36: referential integrity of process records in the extended variant: in
\* every reachable state each process record either still has the root's
\* reserved partition number 5 (which is not an entry of the partition
\* table) or has the id of a partition in the table whose occupant equals
\* that record's program_name.  The code violates it: a partition taken by
\* the catalog program named "free" stays available (C12) and is given to the
\* next EXEC while a child cloned in between still refers to it.
C36_RecordsReferToTheirPartition ==
    variant = "extended" =>
        /\ \A i \in 1..Len(partition_table) :
              partition_table[i].number # RootPartition
        /\ \A p \in 1..Len(pcb_table) :
              \/ pcb_table[p].partition_number = RootPartition
              \/ \E i \in 1..Len(partition_table) :
                    /\ partition_table[i].number = pcb_table[p].partition_number
                    /\ partition_table[i].code = pcb_table[p].program_name

(***************************************************************************)
(* C37                                                                     *)
(***************************************************************************)
\* C37: in the extended variant the clock advance of each system call is
\* fixed: a FORK (successful or parent-not-found) advances the clock by
\* exactly 26, a failed EXEC by exactly 26, and a successful EXEC of a program
\* of size s by exactly 29 + 15*s (13 entry + 15*s load + 1 marking + 3 PCB
\* update + 0 scheduler + 12 exit).
C37_SystemCallAdvance ==
    [][/\ \A ln \in ForkLines :
              (ReadsLine /\ ThisLine = ln /\ Completes) =>
                  /\ current_time' = current_time + 26
                  /\ LogsError <=> CallerAbsent
       /\ \A e \in ExecLines :
              (ReadsLine /\ ThisLine = e.line /\ Completes) =>
                  IF Loads
                  THEN current_time' =
                           current_time + 29 + 15 * MatchedSize(e.name)
                  ELSE /\ LogsError
                       /\ current_time' = current_time + 26]_vars

\* a FORK by a pid that no record has, a successful EXEC of a (20 MB) and a
\* failed EXEC: 26 + (29 + 300) + 26
C37_Witness ==
    /\ current_pid = 3
    /\ trace = <<"FORK,10", "EXEC a,50", "EXEC z,0">>
    /\ status = "running"
    /\ Len(pcb_table) = 1
    /\ partition_table[1].code = "a"
    /\ current_time = 381

(***************************************************************************)
(* C38                                                                     *)
(***************************************************************************)
\* C38: the interpreter never dequeues from the ready queue: in every
\* reachable state of a run of the extended variant the queue holds pid 0
\* followed by the pids of all forked children in creation order, without
\* duplicates, every queued pid exists in the process table, and the queue's
\* length is 1 + the number of successful FORKs.
C38_QueueNeverDequeued ==
    variant = "extended" =>
        /\ Len(ready_queue) = 1 + Cardinality(CloneEntries(execution))
        /\ ready_queue[1] = 0
        /\ Len(ready_queue) = Len(pcb_table)
        /\ \A k \in 1..Len(ready_queue) : ready_queue[k] = pcb_table[k].pid
        /\ \A j, k \in 1..Len(ready_queue) :
              j # k => ready_queue[j] # ready_queue[k]

\* three FORKs and a failed EXEC: the queue holds the root and the three
\* children in creation order
C38_Witness ==
    /\ variant = "extended"
    /\ trace = <<"FORK,10", "FORK,10", "EXEC z,0", "FORK,10">>
    /\ status = "running"
    /\ ready_queue = <<0, 1, 2, 3>>
    /\ Cardinality(CloneEntries(execution)) = 3

DeviceTraffic ==
    \A i \in 1..Len(trace) :
        trace[i] \in {e.line : e \in CpuLines} \cup {e.line : e \in DeviceLines}

\* the log and the clock that the first k lines of such a trace and the two
\* tables determine, for either variant; a device number outside one of the
\* tables ends the run
RECURSIVE DeviceTrafficRun(_)
DeviceTrafficRun(k) ==
    IF k = 0 THEN [ended |-> FALSE, log |-> <<>>, clock |-> 0]
    ELSE LET before == DeviceTrafficRun(k - 1)
             t == before.clock
             IsCpu == \E e \in CpuLines : e.line = trace[k]
             c == CHOOSE e \in CpuLines : e.line = trace[k]
             d == CHOOSE e \in DeviceLines : e.line = trace[k]
             n == d.device
             isr == delays[n + 1]
         IN  IF before.ended THEN before
             ELSE IF IsCpu
             THEN [before EXCEPT
                      !.log = @ \o <<LogLine(t, c.duration, "CPU execution")>>,
                      !.clock = t + c.duration]
             ELSE IF n < 0 \/ n >= Len(vectors) \/ n >= Len(delays)
             THEN [before EXCEPT !.ended = TRUE]
             ELSE [before EXCEPT
                      !.log = @ \o
                          <<LogLine(t, 1, "switch to kernel mode"),
                            LogLine(t + 1, 10, "context saved"),
                            LogLine(t + 11, 1,
                                "find vector " \o PrintedVector(n).number
                                    \o " in memory position "
                                    \o PrintedVector(n).position),
                            LogLine(t + 12, 1,
                                "load address " \o vectors[n + 1]
                                    \o " into the PC"),
                            LogLine(t + 13, isr, d.kind \o ": run the ISR"),
                            LogLine(t + 13 + isr, 1, "IRET"),
                            LogLine(t + 14 + isr, 10, "context restored"),
                            LogLine(t + 24 + isr, 1, "switch to user mode")>>,
                      !.clock = t + 25 + isr]

\* C40: the minimal and the extended variant agree on device traffic: for
\* every trace made only of well-formed CPU, SYSCALL and END_IO lines, with
\* the same vector and delay tables, both variants produce the same sequence
\* of (timestamp, duration, description) log entries and the same final
\* clock.  Stated against what the trace and the tables determine: whichever
\* variant runs, the run ends or goes on as they say and its log and clock
\* are the ones they give.  The code violates it: a device number past the
\* end of the delay table is read unchecked (C18), so the ISR duration is
\* whatever the memory of that build holds.
C40_VariantsAgreeOnDeviceTraffic ==
    DeviceTraffic =>
        LET run == DeviceTrafficRun(Len(trace))
        IN  /\ run.ended <=> status = "aborted"
            /\ ~run.ended => /\ execution = run.log
                             /\ current_time = run.clock

====
